---- MODULE Spec2Model ----
(***************************************************************************)
(* A model of the amina runtime core: the service container                *)
(* (amina_core/src/service.rs) and the call dispatcher                     *)
(* (amina_core/src/rpc/mod.rs) with its web gate                           *)
(* (amina_server/src/rpc_web_gate.rs).                                     *)
(***************************************************************************)
EXTENDS Integers, Sequences, FiniteSets, TLC

\* ------------------------------------------------------------------ bounds
\* Container operations started in one run.
MaxOps == 4
\* Service instances created in one run.
MaxInst == 3
\* Dispatcher operations (registrations and calls) started in one run.
MaxRpcOps == 4
\* Initialize routines entered, and instances they create, in one run.
MaxCtxOps == 3

MaxCtxInst == 4

\* Calls of run, run_instant_task and stop on the task manager.
MaxTaskOps == 5

\* Registrations of file handlers and get_file requests.
MaxFileOps == 3

\* Input lines handled by the command line adapters.
MaxCliLines == 2

\* Properties set in a settings store before it is saved.
MaxSetOps == 3

\* Listeners registered, observers registered and emissions made in one run.
MaxListeners == 3

MaxObservers == 2

MaxEmits == 2

\* ThreadPool::new(4): the workers of the instant-job pool.
PoolSize == 4
\* std::sync::mpsc::sync_channel(1): the capacity of each channel.
ChannelBound == 1

\* ------------------------------------------------------------ common helpers
Reverse(s) == [i \in 1..Len(s) |-> s[Len(s) + 1 - i]]

Range(s) == {s[i] : i \in 1..Len(s)}

(***************************************************************************)
(*                         SERVICE CONTAINER                               *)
(***************************************************************************)
Threads == {"t1", "t2"}

\* The service types of the container's own test: ServiceTwo's initialize
\* pulls ServiceOne from the container.
Types == {"ServiceOne", "ServiceTwo"}

Deps(ty) == IF ty = "ServiceTwo" THEN {"ServiceOne"} ELSE {}

VARIABLES
    services,        \* Context.services: HashMap<TypeId, ServiceWrapper>
    services_order,  \* Context.services_order: Vec<Arc<dyn ServiceApi>>
    instType,        \* the instances created so far: instance id -> its type
    svcWriter,       \* holders of the write guard of Context.services
    orderReaders,    \* holders of a read guard of Context.services_order
    svcPc,           \* where each thread is in its container operation
    svcArg,          \* the operation's arguments and locals
    hooks,           \* the hooks the thread's start()/stop() has invoked so far
    svcRet,          \* what the thread's last finished operation returned
    handles,         \* every Service<S> handle get_service has returned
    nops             \* operations started

svcVars == <<services, services_order, instType, svcWriter, orderReaders,
             svcPc, svcArg, hooks, svcRet, handles, nops>>

\* The call dispatcher's state (its operations are defined further down).
VARIABLES
    calls,          \* Rpc.calls: HashMap<String, Listener>
    chan,           \* the channel pairs of the async registrations, by creation
    callsReaders,   \* callers holding a read guard of Rpc.calls
    rwPolicy,       \* whether a waiting writer keeps new readers out
    rpcPc,          \* where each caller is in call_raw
    rpcArg,         \* the call's arguments and locals
    rpcRet,         \* what the caller's call returned, until the gate replies
    drvPc,          \* where the registering/driving thread is
    drvArg,         \* its operation's arguments and locals
    lastRegistered, \* per key, the registration add_raw_listener made last
    keyPanics,      \* the keys on which a call has panicked
    rpcOps          \* registrations and calls started

rpcVars == <<calls, chan, callsReaders, rwPolicy, rpcPc, rpcArg, rpcRet,
             drvPc, drvArg, lastRegistered, keyPanics, rpcOps>>

\* The event bus's and the instant-job pool's state (their operations are
\* defined further down).
VARIABLES
    events,      \* EventEmitter.events: HashMap<String, Vec<Listener>>
    listeners,   \* the listeners made by on_generic_event_fn, by creation
    observers,   \* EventEmitter.observers: Vec<Box<dyn Fn(&str, &str)>>
    evReaders,   \* threads holding a read guard of EventEmitter.events
    obsReaders,  \* threads holding a read guard of EventEmitter.observers
    evPc,        \* where each emitting thread is inside emit
    evArg,       \* the emission each emitting thread is making
    evRet,       \* what the emit of each emitting thread came back with
    emitted,     \* the emissions made so far, in order
    submitted,   \* the jobs handed to ThreadPool::execute so far, in order
    queue,       \* the jobs waiting in the pool's queue
    running,     \* the jobs a pool worker is running
    done         \* the jobs that have run to their end

evVars == <<events, listeners, observers, evReaders, obsReaders, evPc, evArg,
            evRet, emitted, submitted, queue, running, done>>

\* What initialize routines do inside the container (nested registrations).
VARIABLES
    svcStack,    \* per thread, the initialize routines it is inside, outermost first
    instMeta     \* per instance: the initialize that made it, those it was
                 \* registered within, and for a gate the instance it wraps

ctxVars == <<svcStack, instMeta>>

\* The task manager (tasks.rs): tracked tasks, instant jobs and stop().
VARIABLES
    tasks,       \* TaskManager.tasks: the contexts of the tracked tasks, in push order
    taskCtx,     \* every TaskContext made: its flag, its path, whether its job has exited
    poolQueue,   \* instant jobs handed to the pool and not started yet
    stopPc,      \* per thread: "idle", or "iter" inside stop() holding tasks.read()
    stopIdx,     \* per thread inside stop(): the next place of the iteration
    stopSnap,    \* per thread inside stop(): the registry when stop() took the guard
    signalled,   \* the contexts that were registered before a stop() that has returned
    tkOps        \* calls made so far

tkVars == <<tasks, taskCtx, poolQueue, stopPc, stopIdx, stopSnap, signalled, tkOps>>

\* The file table of the call dispatcher and the web gate's file route.
VARIABLES
    get_file_calls,  \* Rpc.get_file_calls: key -> handler ("none": no entry)
    fileLog,         \* the get_file requests made, with what they returned
    fileOps          \* registrations and requests made so far

gfVars == <<get_file_calls, fileLog, fileOps>>

\* The command line adapters (the server's input handler, the core's loop).
VARIABLES
    cliLog,      \* the lines handled so far, with what became of each
    corePc       \* CmdManagerCliAdapter::run: "running", "quit" or "panicked"

cliVars == <<cliLog, corePc>>

\* A settings store, its saved text and the store read back from the text.
VARIABLES
    properties,  \* Settings.entry.properties: key -> string value
    setOps,      \* get_string / set calls made so far
    setPc,       \* "building", "saved", "save panicked", "loaded", "load panicked"
    savedText,   \* what save_to_string returned
    reloaded     \* the properties of init_from_string(savedText)

setVars == <<properties, setOps, setPc, savedText, reloaded>>

extVars == <<ctxVars, tkVars, gfVars, cliVars, setVars>>

\* The groups an action of one group leaves alone.
ctxOthers == <<tkVars, gfVars, cliVars, setVars>>

tkOthers == <<ctxVars, gfVars, cliVars, setVars>>

gfOthers == <<ctxVars, tkVars, cliVars, setVars>>

cliOthers == <<ctxVars, tkVars, gfVars, setVars>>

setOthers == <<ctxVars, tkVars, gfVars, cliVars>>

vars == <<svcVars, rpcVars, evVars, extVars>>

\* Context::new, for what the initialize routines do: no routine is running.
InitCtx ==
    /\ svcStack = [t \in {"t1", "t2"} |-> << >>]
    /\ instMeta = << >>

\* TaskManager::initialize: an empty registry, an idle pool.
InitTasks ==
    /\ tasks = << >>
    /\ taskCtx = << >>
    /\ poolQueue = 0
    /\ stopPc = [t \in {"t1", "t2"} |-> "idle"]
    /\ stopIdx = [t \in {"t1", "t2"} |-> 0]
    /\ stopSnap = [t \in {"t1", "t2"} |-> << >>]
    /\ signalled = {}
    /\ tkOps = 0

\* Rpc::initialize, get_file_calls: RwLock::default().
InitFiles ==
    /\ get_file_calls = [k \in {<<"a">>, <<"b">>} |-> "none"]
    /\ fileLog = << >>
    /\ fileOps = 0

\* The adapters before the first line: run() is in its loop.
InitCli ==
    /\ cliLog = << >>
    /\ corePc = "running"

\* Settings::create_empty.
InitSettings ==
    /\ properties = << >>
    /\ setOps = 0
    /\ setPc = "building"
    /\ savedText = << >>
    /\ reloaded = << >>

InitExt ==
    /\ InitCtx
    /\ InitTasks
    /\ InitFiles
    /\ InitCli
    /\ InitSettings

\* Threads that emit events.
Emitters == {"m1"}

NoEmit == [key |-> "none", data |-> << >>, em |-> 0, next |-> 0,
           listeners |-> << >>, todo |-> << >>, notified |-> << >>]

NoEmitResult == [status |-> "none", key |-> "none", data |-> << >>, em |-> 0,
                 notified |-> << >>, observers |-> << >>, listeners |-> << >>]

\* EventEmitter::initialize and TaskManager::initialize: no listener, no
\* observer, an idle pool.
InitEv ==
    /\ events = << >>
    /\ listeners = << >>
    /\ observers = << >>
    /\ evReaders = {}
    /\ obsReaders = {}
    /\ evPc = [t \in Emitters |-> "idle"]
    /\ evArg = [t \in Emitters |-> NoEmit]
    /\ evRet = [t \in Emitters |-> NoEmitResult]
    /\ emitted = << >>
    /\ submitted = << >>
    /\ queue = << >>
    /\ running = {}
    /\ done = {}

NoArg == [op |-> "none", ty |-> "none", inst |-> 0, todo |-> <<>>]

NoRet == [op |-> "none", ty |-> "none", ok |-> TRUE, inst |-> 0,
          hooks |-> <<>>, order |-> <<>>]

\* Mutant of MapInsert: insert only into a vacant entry (entry().or_insert()).
MapInsert_vacant(m, k, v) ==
    IF k \in DOMAIN m THEN m ELSE [x \in (DOMAIN m) \cup {k} |-> IF x = k THEN v ELSE m[x]]

\* Mutant of MapInsert: the map is rebuilt with the new entry alone.
MapInsert_clear(m, k, v) == [x \in {k} |-> v]

\* HashMap::insert: the entry of key k is set, an earlier one is replaced.
MapInsert(m, k, v) == [x \in (DOMAIN m) \cup {k} |-> IF x = k THEN v ELSE m[x]]

\* HashMap::get(..).unwrap() in get_service: the wrapper's entry.
MapGet(m, k) == m[k]

\* Mutant of GetServiceResult: the lookup ignores the type identity.
GetServiceResult_anyKey(m, ty) ==
    IF ty \in DOMAIN m THEN [ok |-> TRUE, inst |-> m[CHOOSE k \in DOMAIN m : TRUE]]
                        ELSE [ok |-> FALSE, inst |-> 0]

\* Mutant of GetServiceResult: an absent type falls back to some entry
\* instead of failing.
GetServiceResult_fallback(m, ty) ==
    IF ty \in DOMAIN m THEN [ok |-> TRUE, inst |-> m[ty]]
    ELSE IF DOMAIN m /= {} THEN [ok |-> TRUE, inst |-> m[CHOOSE k \in DOMAIN m : TRUE]]
    ELSE [ok |-> FALSE, inst |-> 0]

\* get_service, lines 75-77: the entry of the type, or the panic of unwrap().
GetServiceResult(m, ty) ==
    IF ty \in DOMAIN m THEN [ok |-> TRUE, inst |-> MapGet(m, ty)]
                        ELSE [ok |-> FALSE, inst |-> 0]

\* services_order.read().unwrap().iter(): the entries start() visits, in order.
StartIter(order) == order

\* Mutant of StopIter: the .rev() is missing.
StopIter_forward(order) == order

\* Mutant of StopIter: the first entry is stopped first, the others in
\* reverse order after it.
StopIter_managerFirst(order) ==
    IF order = << >> THEN << >> ELSE <<Head(order)>> \o Reverse(Tail(order))

\* services_order.read().unwrap().iter().rev(): the entries stop() visits.
StopIter(order) == Reverse(order)

InitSvc ==
    /\ services = << >>
    /\ services_order = << >>
    /\ instType = << >>
    /\ svcWriter = {}
    /\ orderReaders = {}
    /\ svcPc = [t \in Threads |-> "idle"]
    /\ svcArg = [t \in Threads |-> NoArg]
    /\ hooks = [t \in Threads |-> << >>]
    /\ svcRet = [t \in Threads |-> NoRet]
    /\ handles = {}
    /\ nops = 0

\* Context::add_service: Arc::new(service), then add_service_internal.
CallAddService(t, ty) ==
    /\ svcPc[t] = "idle"
    /\ nops < MaxOps
    /\ Len(instType) < MaxInst
    /\ instType' = Append(instType, ty)
    /\ svcArg' = [svcArg EXCEPT ![t] =
                    [NoArg EXCEPT !.op = "add_service", !.ty = ty,
                                  !.inst = Len(instType) + 1]]
    /\ svcPc' = [svcPc EXCEPT ![t] = "add_internal"]
    /\ nops' = nops + 1
    /\ UNCHANGED <<services, services_order, svcWriter, orderReaders, hooks,
                   svcRet, handles>>
    /\ UNCHANGED <<rpcVars, evVars, extVars>>

\* Context::init_service: S::initialize(self) runs first, with no lock held.
CallInitService(t, ty) ==
    /\ svcPc[t] = "idle"
    /\ nops < MaxOps
    /\ Len(instType) < MaxInst
    /\ svcArg' = [svcArg EXCEPT ![t] =
                    [NoArg EXCEPT !.op = "init_service", !.ty = ty]]
    /\ svcPc' = [svcPc EXCEPT ![t] = "initialize"]
    /\ nops' = nops + 1
    /\ UNCHANGED <<services, services_order, instType, svcWriter, orderReaders,
                   hooks, svcRet, handles>>
    /\ UNCHANGED <<rpcVars, evVars, extVars>>

\* S::initialize: it takes its dependencies with get_service (a panic when one
\* is absent) and returns the new instance.
Initialize(t) ==
    /\ svcPc[t] = "initialize"
    /\ Len(instType) < MaxInst
    /\ LET ty == svcArg[t].ty IN
       IF Deps(ty) = {}
       THEN /\ instType' = Append(instType, ty)
            /\ svcArg' = [svcArg EXCEPT ![t].inst = Len(instType) + 1]
            /\ svcPc' = [svcPc EXCEPT ![t] = "add_internal"]
            /\ UNCHANGED <<svcRet, handles>>
       ELSE /\ svcWriter = {}
            /\ IF \A d \in Deps(ty) : GetServiceResult(services, d).ok
               THEN /\ instType' = Append(instType, ty)
                    /\ svcArg' = [svcArg EXCEPT ![t].inst = Len(instType) + 1]
                    /\ svcPc' = [svcPc EXCEPT ![t] = "add_internal"]
                    /\ handles' = handles \cup
                          {[ty |-> d, inst |-> GetServiceResult(services, d).inst] :
                              d \in Deps(ty)}
                    /\ UNCHANGED svcRet
               ELSE /\ svcRet' = [svcRet EXCEPT ![t] =
                          [NoRet EXCEPT !.op = "init_service", !.ty = ty,
                                        !.ok = FALSE]]
                    /\ svcArg' = [svcArg EXCEPT ![t] = NoArg]
                    /\ svcPc' = [svcPc EXCEPT ![t] = "idle"]
                    /\ UNCHANGED <<instType, handles>>
    /\ UNCHANGED <<services, services_order, svcWriter, orderReaders, hooks, nops>>
    /\ UNCHANGED <<rpcVars, evVars, extVars>>

\* add_service_internal, lines 97-102: services.write(), then insert.
AddInternalInsert(t) ==
    /\ svcPc[t] = "add_internal"
    /\ svcWriter = {}
    /\ svcWriter' = {t}
    /\ services' = MapInsert(services, svcArg[t].ty, svcArg[t].inst)
    /\ svcPc' = [svcPc EXCEPT ![t] = "add_locked"]
    /\ UNCHANGED <<services_order, instType, orderReaders, svcArg, hooks,
                   svcRet, handles, nops>>
    /\ UNCHANGED <<rpcVars, evVars, extVars>>

\* Mutant of AddInternalPush: the push does not wait for the readers of
\* services_order.
AddInternalPush_noLock(t) ==
    /\ svcPc[t] = "add_locked"
    /\ services_order' = Append(services_order, svcArg[t].inst)
    /\ svcWriter' = {}
    /\ svcRet' = [svcRet EXCEPT ![t] =
                    [NoRet EXCEPT !.op = svcArg[t].op, !.ty = svcArg[t].ty,
                                  !.inst = svcArg[t].inst]]
    /\ svcArg' = [svcArg EXCEPT ![t] = NoArg]
    /\ svcPc' = [svcPc EXCEPT ![t] = "idle"]
    /\ UNCHANGED <<services, instType, orderReaders, hooks, handles, nops>>
    /\ UNCHANGED <<rpcVars, evVars, extVars>>

\* add_service_internal, line 103: services_order.write() and push, still
\* holding the write guard of services; both guards are dropped at the end.
AddInternalPush(t) ==
    /\ svcPc[t] = "add_locked"
    /\ orderReaders = {}
    /\ services_order' = Append(services_order, svcArg[t].inst)
    /\ svcWriter' = {}
    /\ svcRet' = [svcRet EXCEPT ![t] =
                    [NoRet EXCEPT !.op = svcArg[t].op, !.ty = svcArg[t].ty,
                                  !.inst = svcArg[t].inst]]
    /\ svcArg' = [svcArg EXCEPT ![t] = NoArg]
    /\ svcPc' = [svcPc EXCEPT ![t] = "idle"]
    /\ UNCHANGED <<services, instType, orderReaders, hooks, handles, nops>>
    /\ UNCHANGED <<rpcVars, evVars, extVars>>

\* Context::get_service is called.
CallGetService(t, ty) ==
    /\ svcPc[t] = "idle"
    /\ nops < MaxOps
    /\ svcArg' = [svcArg EXCEPT ![t] =
                    [NoArg EXCEPT !.op = "get_service", !.ty = ty]]
    /\ svcPc' = [svcPc EXCEPT ![t] = "get_service"]
    /\ nops' = nops + 1
    /\ UNCHANGED <<services, services_order, instType, svcWriter, orderReaders,
                   hooks, svcRet, handles>>
    /\ UNCHANGED <<rpcVars, evVars, extVars>>

\* Context::get_service: services.read(), get(..).unwrap(), clone of the entry.
GetService(t) ==
    /\ svcPc[t] = "get_service"
    /\ svcWriter = {}
    /\ LET ty == svcArg[t].ty
           r == GetServiceResult(services, ty) IN
       /\ svcRet' = [svcRet EXCEPT ![t] =
             [NoRet EXCEPT !.op = "get_service", !.ty = ty, !.ok = r.ok,
                           !.inst = r.inst]]
       /\ handles' = IF r.ok THEN handles \cup {[ty |-> ty, inst |-> r.inst]}
                            ELSE handles
    /\ svcArg' = [svcArg EXCEPT ![t] = NoArg]
    /\ svcPc' = [svcPc EXCEPT ![t] = "idle"]
    /\ UNCHANGED <<services, services_order, instType, svcWriter, orderReaders,
                   hooks, nops>>
    /\ UNCHANGED <<rpcVars, evVars, extVars>>

\* Context::start: the read guard of services_order is taken and the iterator
\* over the entries is made.
CallStart(t) ==
    /\ svcPc[t] = "idle"
    /\ nops < MaxOps
    /\ orderReaders' = orderReaders \cup {t}
    /\ svcArg' = [svcArg EXCEPT ![t] =
                    [NoArg EXCEPT !.op = "start", !.todo = StartIter(services_order)]]
    /\ hooks' = [hooks EXCEPT ![t] = << >>]
    /\ svcPc' = [svcPc EXCEPT ![t] = "iterate"]
    /\ nops' = nops + 1
    /\ UNCHANGED <<services, services_order, instType, svcWriter, svcRet, handles>>
    /\ UNCHANGED <<rpcVars, evVars, extVars>>

\* Context::stop: the same, over the reversed iterator.
CallStop(t) ==
    /\ svcPc[t] = "idle"
    /\ nops < MaxOps
    /\ orderReaders' = orderReaders \cup {t}
    /\ svcArg' = [svcArg EXCEPT ![t] =
                    [NoArg EXCEPT !.op = "stop", !.todo = StopIter(services_order)]]
    /\ hooks' = [hooks EXCEPT ![t] = << >>]
    /\ svcPc' = [svcPc EXCEPT ![t] = "iterate"]
    /\ nops' = nops + 1
    /\ UNCHANGED <<services, services_order, instType, svcWriter, svcRet, handles>>
    /\ UNCHANGED <<rpcVars, evVars, extVars>>

\* One turn of the for loop of start()/stop(): service.start() / service.stop().
InvokeHook(t) ==
    /\ svcPc[t] = "iterate"
    /\ svcArg[t].todo /= << >>
    /\ hooks' = [hooks EXCEPT ![t] = Append(@, Head(svcArg[t].todo))]
    /\ svcArg' = [svcArg EXCEPT ![t].todo = Tail(@)]
    /\ UNCHANGED <<services, services_order, instType, svcWriter, orderReaders,
                   svcPc, svcRet, handles, nops>>
    /\ UNCHANGED <<rpcVars, evVars, extVars>>

\* The loop of start()/stop() ends and the read guard is dropped.
EndIterate(t) ==
    /\ svcPc[t] = "iterate"
    /\ svcArg[t].todo = << >>
    /\ orderReaders' = orderReaders \ {t}
    /\ svcRet' = [svcRet EXCEPT ![t] =
                    [NoRet EXCEPT !.op = svcArg[t].op, !.hooks = hooks[t],
                                  !.order = services_order]]
    /\ svcArg' = [svcArg EXCEPT ![t] = NoArg]
    /\ svcPc' = [svcPc EXCEPT ![t] = "idle"]
    /\ UNCHANGED <<services, services_order, instType, svcWriter, hooks,
                   handles, nops>>
    /\ UNCHANGED <<rpcVars, evVars, extVars>>

NextSvc ==
    \/ \E t \in Threads, ty \in Types : CallAddService(t, ty)
    \/ \E t \in Threads, ty \in Types : CallInitService(t, ty)
    \/ \E t \in Threads : Initialize(t)
    \/ \E t \in Threads : AddInternalInsert(t)
    \/ \E t \in Threads : AddInternalPush(t)
    \/ \E t \in Threads, ty \in Types : CallGetService(t, ty)
    \/ \E t \in Threads : GetService(t)
    \/ \E t \in Threads : CallStart(t)
    \/ \E t \in Threads : CallStop(t)
    \/ \E t \in Threads : InvokeHook(t)
    \/ \E t \in Threads : EndIterate(t)

\* The dispatcher is not touched: Rpc::new's state, under one lock policy.
InitService ==
    /\ InitSvc
    /\ calls = << >>
    /\ chan = << >>
    /\ callsReaders = {}
    /\ rwPolicy = "readers_share"
    /\ rpcPc = [c \in {"c1", "c2"} |-> "idle"]
    /\ rpcArg = [c \in {"c1", "c2"} |-> [key |-> "none"]]
    /\ rpcRet = [c \in {"c1", "c2"} |-> [key |-> "none"]]
    /\ drvPc = "idle"
    /\ drvArg = [kind |-> "none"]
    /\ lastRegistered = [k \in {"k1", "k2"} |-> [reg |-> 0]]
    /\ keyPanics = {}
    /\ rpcOps = 0
    /\ InitEv
    /\ InitExt

SpecService == InitService /\ [][NextSvc]_vars

(***************************************************************************)
(*                  PROPERTIES OF THE SERVICE CONTAINER                    *)
(***************************************************************************)
\* The thread, if any, that has inserted into the lookup map and not yet
\* pushed to the ordered sequence.
Inserting == {t \in Threads : svcPc[t] = "add_locked"}

\* The instances registered so far, in registration order.
Registered ==
    IF Inserting = {} THEN services_order
    ELSE Append(services_order, svcArg[CHOOSE t \in Inserting : TRUE].inst)

\* The places of Registered that hold an instance of type ty.
PlacesOf(ty) == {i \in 1..Len(Registered) : instType[Registered[i]] = ty}

SetMin(S) == CHOOSE x \in S : \A y \in S : x <= y

SetMax(S) == CHOOSE x \in S : \A y \in S : y <= x

\* C1: a finished start() has invoked the start hook of every entry of the
\* ordered sequence exactly once, the i-th call on the i-th registered entry;
\* a finished stop() has invoked the stop hooks exactly once each, the i-th
\* call on the (N+1-i)-th registered entry.
StartStopOrder ==
    \A t \in Threads :
        LET r == svcRet[t]
            n == Len(r.order) IN
        /\ r.op = "start" =>
              /\ Len(r.hooks) = n
              /\ \A i \in 1..n : r.hooks[i] = r.order[i]
        /\ r.op = "stop" =>
              /\ Len(r.hooks) = n
              /\ \A i \in 1..n : r.hooks[i] = r.order[n + 1 - i]

StartStopOrderWitness ==
    /\ svcRet["t1"].op = "start"
    /\ svcRet["t2"].op = "stop"
    /\ Len(svcRet["t1"].order) >= 2
    /\ Len(svcRet["t2"].order) >= 2

\* C2: while a type has been registered exactly once, every handle that
\* get_service has returned for it refers to the one registered instance.
RegistryUniqueness ==
    \A h \in handles :
        Cardinality(PlacesOf(h.ty)) = 1 =>
            h.inst = Registered[CHOOSE i \in PlacesOf(h.ty) : TRUE]

RegistryUniquenessWitness ==
    /\ svcRet["t1"].op = "get_service" /\ svcRet["t1"].ok
    /\ svcRet["t2"].op = "get_service" /\ svcRet["t2"].ok
    /\ svcRet["t1"].ty = svcRet["t2"].ty
    /\ Cardinality(PlacesOf(svcRet["t1"].ty)) = 1
    /\ Len(Registered) >= 2

\* C3: the step of get_service that looks up a type with no registered
\* instance ends the call with a panic: no handle is returned, and the lookup
\* map and the ordered sequence are as before.
GetUnregisteredIsFatal ==
    [][\A t \in Threads :
          (svcPc[t] = "get_service" /\ svcPc'[t] /= svcPc[t]
             /\ PlacesOf(svcArg[t].ty) = {})
          => /\ svcPc'[t] = "idle"
             /\ svcRet'[t].op = "get_service"
             /\ ~svcRet'[t].ok
             /\ svcRet'[t].inst = 0
             /\ handles' = handles
             /\ services' = services
             /\ services_order' = services_order]_vars

GetUnregisteredIsFatalWitness ==
    \E t \in Threads :
        /\ svcRet[t].op = "get_service"
        /\ ~svcRet[t].ok
        /\ PlacesOf(svcRet[t].ty) = {}
        /\ Len(services_order) >= 1

\* C4: a type may be registered again: the lookup map then holds the instance
\* registered last for the type, every handle returned earlier still refers to
\* an instance the ordered sequence holds, the ordered sequence holds every
\* registered instance once, and a finished start()/stop() has invoked the
\* hooks of all of them.
ReRegistrationReplaces ==
    /\ \A ty \in Types :
          /\ (ty \in DOMAIN services) = (PlacesOf(ty) /= {})
          /\ PlacesOf(ty) /= {} => services[ty] = Registered[SetMax(PlacesOf(ty))]
    /\ \A h \in handles : \E i \in PlacesOf(h.ty) : Registered[i] = h.inst
    /\ \A i, j \in 1..Len(Registered) : Registered[i] = Registered[j] => i = j
    /\ \A t \in Threads :
          svcRet[t].op \in {"start", "stop"} =>
              Range(svcRet[t].hooks) = Range(svcRet[t].order)
    /\ \A t \in Threads :
          (svcRet[t].op \in {"add_service", "init_service"} /\ svcRet[t].ok) =>
              svcRet[t].inst \in Range(services_order)

ReRegistrationReplacesWitness ==
    \E ty \in Types, t \in Threads :
        /\ Cardinality(PlacesOf(ty)) = 2
        /\ Inserting = {}
        /\ [ty |-> ty, inst |-> Registered[SetMin(PlacesOf(ty))]] \in handles
        /\ services[ty] = Registered[SetMax(PlacesOf(ty))]
        /\ svcRet[t].op \in {"start", "stop"}
        /\ {Registered[i] : i \in PlacesOf(ty)} \subseteq Range(svcRet[t].hooks)

\* C5 as stated: get_service<S>() returns the instance first registered for S
\* after any sequence of container operations.
FirstRegisteredKept ==
    \A ty \in DOMAIN services :
        PlacesOf(ty) /= {} => services[ty] = Registered[SetMin(PlacesOf(ty))]

\* C5 as amended: an entry is never removed, the ordered sequence only grows
\* by what add_service_internal pushes, and the lookup entry of a type changes
\* only in the step of add_service_internal that inserts a new instance of
\* that same type.
EntryReplacedOnlyByReRegistration ==
    [][/\ \A ty \in DOMAIN services :
             /\ ty \in DOMAIN services'
             /\ services'[ty] /= services[ty] =>
                   \E t \in Threads :
                       /\ svcPc[t] = "add_internal"
                       /\ svcPc'[t] = "add_locked"
                       /\ svcArg[t].ty = ty
                       /\ services'[ty] = svcArg[t].inst
       /\ Len(services_order') >= Len(services_order)
       /\ \A i \in 1..Len(services_order) :
             services_order'[i] = services_order[i]]_vars

EntryReplacedOnlyByReRegistrationWitness ==
    \E ty \in Types :
        /\ Cardinality(PlacesOf(ty)) = 2
        /\ ty \in DOMAIN services
        /\ services[ty] /= Registered[SetMin(PlacesOf(ty))]
        /\ Cardinality(DOMAIN services) = 2

(***************************************************************************)
(*                           CALL DISPATCHER                               *)
(***************************************************************************)
\* Threads that call call_raw: the web gate's blocking tasks.
Callers == {"c1", "c2"}

\* The keys calls are made with; a key is unknown until it is registered.
Keys == {"k1", "k2"}

\* The user closures: the "sum" scenario and a second one.
Apply(f, x) == IF f = "sum" THEN x.a + x.b ELSE x.a * x.b

\* The handlers registered: on_generic_call_fn with either closure,
\* on_generic_call_async with a closure, and get_generic_call_async_receiver
\* with an owner that answers with its own logic.
Handlers ==
    {[kind |-> "fn", f |-> "sum"], [kind |-> "fn", f |-> "mul"],
     [kind |-> "async", f |-> "mul"], [kind |-> "receiver", f |-> "sum"]}

\* The typed input {a: u64, b: u64} the valid calls are made with.
Inputs == {[a |-> 2, b |-> 3]}

\* A JSON text is the sequence of its members; a member is a name with a
\* number or a string (the string's text is not looked at).
Member(n, k, v) == [name |-> n, kind |-> k, val |-> v]

\* serde_json::to_string of the input type.
ToStringIn(x) == <<Member("a", "num", x.a), Member("b", "num", x.b)>>

\* serde_json::to_string of the output type {result: u64}.
ToStringOut(o) == <<Member("result", "num", o)>>

\* String::from("{ }"), the payload of an unknown key.
EmptyObject == << >>

MembersNamed(doc, n) == {i \in 1..Len(doc) : doc[i].name = n}

NumField(doc, n) ==
    /\ Cardinality(MembersNamed(doc, n)) = 1
    /\ doc[CHOOSE i \in MembersNamed(doc, n) : TRUE].kind = "num"

FieldVal(doc, n) == doc[CHOOSE i \in MembersNamed(doc, n) : TRUE].val

\* serde_json::from_str into the input type: both fields, each a number.
FromStr(doc) ==
    IF NumField(doc, "a") /\ NumField(doc, "b")
    THEN [ok |-> TRUE, a |-> FieldVal(doc, "a"), b |-> FieldVal(doc, "b")]
    ELSE [ok |-> FALSE, a |-> 0, b |-> 0]

\* The payloads calls are made with: {a:2,b:3} and {a:"x",b:3}.
Payloads ==
    {ToStringIn(x) : x \in Inputs}
        \cup {<<Member("a", "str", 0), Member("b", "num", 3)>>}

NoReg == [reg |-> 0, kind |-> "none", f |-> "none"]

NoCall == [key |-> "none", body |-> << >>, kind |-> "none", f |-> "none",
           ch |-> 0, reg |-> 0, execs |-> 0, execBy |-> "none",
           afterPanic |-> FALSE]

NoResult == [key |-> "none", body |-> << >>, status |-> "none", out |-> << >>,
             kind |-> "none", reg |-> 0, latest |-> NoReg, execs |-> 0,
             execBy |-> "none", afterPanic |-> FALSE, http |-> 0]

NoReq == [from |-> "none", a |-> 0, b |-> 0]

NoDrv == [kind |-> "none", key |-> "none", f |-> "none", ch |-> 0, req |-> NoReq,
          body |-> << >>]

\* Rpc::new. The policy of the table's RwLock is the platform's: std
\* documents that a writer waiting for the lock might or might not block
\* concurrent calls to read.
InitDispatcher(policy) ==
    /\ InitSvc
    /\ calls = << >>
    /\ chan = << >>
    /\ callsReaders = {}
    /\ rwPolicy = policy
    /\ rpcPc = [c \in Callers |-> "idle"]
    /\ rpcArg = [c \in Callers |-> NoCall]
    /\ rpcRet = [c \in Callers |-> NoResult]
    /\ drvPc = "idle"
    /\ drvArg = NoDrv
    /\ lastRegistered = [k \in Keys |-> NoReg]
    /\ keyPanics = {}
    /\ rpcOps = 0
    /\ InitEv
    /\ InitExt

\* Readers are let in while a writer waits.
InitRpc == InitDispatcher("readers_share")

\* A waiting writer keeps new readers out (std's futex and queue locks).
InitRpcWriterFirst == InitDispatcher("writer_first")

\* Whether calls.read() lets a new reader in.
CanRead ==
    rwPolicy = "readers_share" \/ drvPc /= "registering"

\* Mutant of TableInsert: an occupied key keeps its handler.
TableInsert_keepFirst(m, k, l) ==
    IF k \in DOMAIN m THEN m
    ELSE [x \in (DOMAIN m) \cup {k} |-> IF x = k THEN l ELSE m[x]]

\* add_raw_listener, line 190: calls.insert(key, listener).
TableInsert(m, k, l) ==
    [x \in (DOMAIN m) \cup {k} |-> IF x = k THEN l ELSE m[x]]

\* call_raw, line 199: what an unknown key returns.
UnknownKeyPayload == EmptyObject

\* Mutant of SyncHandlerWrapper: the input value is serialized back.
SyncHandlerWrapper_echo(f, body) ==
    LET x == FromStr(body) IN
    IF x.ok THEN [ok |-> TRUE, ran |-> TRUE, out |-> ToStringIn(x)]
            ELSE [ok |-> FALSE, ran |-> FALSE, out |-> << >>]

\* Mutant of SyncHandlerWrapper: an invalid payload is logged and the
\* handler runs on a default input (unwrap_or_default).
SyncHandlerWrapper_default(f, body) ==
    LET x == FromStr(body) IN
    [ok |-> TRUE, ran |-> TRUE, out |-> ToStringOut(Apply(f, x))]

\* The wrapper of on_generic_call_fn, lines 105-114: from_str, unwrap (a
\* panic on an invalid payload), the user handler, to_string.
SyncHandlerWrapper(f, body) ==
    LET x == FromStr(body) IN
    IF x.ok THEN [ok |-> TRUE, ran |-> TRUE, out |-> ToStringOut(Apply(f, x))]
            ELSE [ok |-> FALSE, ran |-> FALSE, out |-> << >>]

\* Mutant of TryRecv: the request is read and left in the channel.
TryRecv_peek(q) ==
    [some |-> q /= << >>, req |-> IF q /= << >> THEN Head(q) ELSE NoReq,
     rest |-> q]

\* Receiver::try_recv on the request channel: the oldest request, taken out.
TryRecv(q) ==
    [some |-> q /= << >>, req |-> IF q /= << >> THEN Head(q) ELSE NoReq,
     rest |-> IF q /= << >> THEN Tail(q) ELSE q]

\* on_generic_call_fn / on_generic_call_async / get_generic_call_async_receiver
\* up to add_raw_listener: the wrapper and, for the async kinds, the channel
\* pair and its mutex are made; then calls.write() is waited for.
RegisterBegin(kind, key, f) ==
    /\ drvPc = "idle"
    /\ rpcOps < MaxRpcOps
    /\ drvArg' = [NoDrv EXCEPT !.kind = kind, !.key = key, !.f = f]
    /\ drvPc' = "registering"
    /\ rpcOps' = rpcOps + 1
    /\ UNCHANGED <<calls, chan, callsReaders, rwPolicy, rpcPc, rpcArg, rpcRet,
                   lastRegistered, keyPanics>>
    /\ UNCHANGED <<svcVars, evVars, extVars>>

\* Mutant of RegisterCommit: a key that has a channel pair keeps it when an
\* async handler is registered again.
RegisterCommit_keepsChannel ==
    /\ drvPc = "registering"
    /\ callsReaders = {}
    /\ LET async == drvArg.kind /= "fn"
           key == drvArg.key
           has == key \in DOMAIN calls /\ calls[key].ch /= 0
           ch == IF ~async THEN 0 ELSE IF has THEN calls[key].ch ELSE Len(chan) + 1
           reg == lastRegistered[key].reg + 1
           closed == IF has /\ ~async
                     THEN [chan EXCEPT ![calls[key].ch].open = FALSE]
                     ELSE chan
           fresh == [kind |-> drvArg.kind, key |-> key, f |-> drvArg.f,
                     reg |-> reg, req |-> << >>, resp |-> << >>,
                     mutex |-> {}, poisoned |-> FALSE, open |-> TRUE,
                     pending |-> FALSE, taken |-> NoReq]
       IN
       /\ calls' = TableInsert(calls, key,
                      [kind |-> drvArg.kind, f |-> drvArg.f, ch |-> ch,
                       reg |-> reg])
       /\ chan' = IF async /\ ~has THEN Append(closed, fresh) ELSE closed
       /\ lastRegistered' = [lastRegistered EXCEPT ![key] =
                               [reg |-> reg, kind |-> drvArg.kind, f |-> drvArg.f]]
    /\ drvArg' = NoDrv
    /\ drvPc' = "idle"
    /\ UNCHANGED <<callsReaders, rwPolicy, rpcPc, rpcArg, rpcRet, keyPanics,
                   rpcOps>>
    /\ UNCHANGED <<svcVars, evVars, extVars>>

\* add_raw_listener: the write guard is had once no reader holds the table;
\* the insert drops the listener the key had, and with it that listener's
\* ends of its channel pair.
RegisterCommit ==
    /\ drvPc = "registering"
    /\ callsReaders = {}
    /\ LET async == drvArg.kind /= "fn"
           ch == IF async THEN Len(chan) + 1 ELSE 0
           key == drvArg.key
           reg == lastRegistered[key].reg + 1
           closed == IF key \in DOMAIN calls /\ calls[key].ch /= 0
                     THEN [chan EXCEPT ![calls[key].ch].open = FALSE]
                     ELSE chan
           fresh == [kind |-> drvArg.kind, key |-> key, f |-> drvArg.f,
                     reg |-> reg, req |-> << >>, resp |-> << >>,
                     mutex |-> {}, poisoned |-> FALSE, open |-> TRUE,
                     pending |-> FALSE, taken |-> NoReq]
       IN
       /\ calls' = TableInsert(calls, key,
                      [kind |-> drvArg.kind, f |-> drvArg.f, ch |-> ch,
                       reg |-> reg])
       /\ chan' = IF async THEN Append(closed, fresh) ELSE closed
       /\ lastRegistered' = [lastRegistered EXCEPT ![key] =
                               [reg |-> reg, kind |-> drvArg.kind, f |-> drvArg.f]]
    /\ drvArg' = NoDrv
    /\ drvPc' = "idle"
    /\ UNCHANGED <<callsReaders, rwPolicy, rpcPc, rpcArg, rpcRet, keyPanics,
                   rpcOps>>
    /\ UNCHANGED <<svcVars, evVars, extVars>>

\* handle_rpc_call with a "key" query parameter: the blocking task calls
\* RpcGate::call_raw, which calls Rpc::call_raw.
CallRaw(c, key, body) ==
    /\ rpcPc[c] = "idle"
    /\ rpcOps < MaxRpcOps
    /\ rpcArg' = [rpcArg EXCEPT ![c] =
                    [NoCall EXCEPT !.key = key, !.body = body,
                                   !.afterPanic = (key \in keyPanics)]]
    /\ rpcPc' = [rpcPc EXCEPT ![c] = "call_raw"]
    /\ rpcOps' = rpcOps + 1
    /\ UNCHANGED <<calls, chan, callsReaders, rwPolicy, rpcRet, drvPc, drvArg,
                   lastRegistered, keyPanics>>
    /\ UNCHANGED <<svcVars, evVars, extVars>>

\* What a call hands back: handle_rpc_call answers 200 with the payload; a
\* panic of the call is a panic of the gate's task, with no response.
Returned(c, status, out, execs, execBy) ==
    [NoResult EXCEPT !.key = rpcArg[c].key, !.body = rpcArg[c].body,
                     !.status = status, !.out = out, !.kind = rpcArg[c].kind,
                     !.reg = rpcArg[c].reg,
                     !.latest = lastRegistered[rpcArg[c].key],
                     !.execs = execs, !.execBy = execBy,
                     !.afterPanic = rpcArg[c].afterPanic,
                     !.http = IF status = "ok" THEN 200 ELSE 0]

\* Mutant of Lookup: the read guard is dropped once the handler is found.
Lookup_noGuard(c) ==
    /\ rpcPc[c] = "call_raw"
    /\ CanRead
    /\ IF rpcArg[c].key \in DOMAIN calls
       THEN LET l == calls[rpcArg[c].key] IN
            /\ rpcArg' = [rpcArg EXCEPT ![c].kind = l.kind, ![c].f = l.f,
                                        ![c].ch = l.ch, ![c].reg = l.reg]
            /\ rpcPc' = [rpcPc EXCEPT ![c] = "wrapper"]
            /\ UNCHANGED rpcRet
       ELSE /\ rpcRet' = [rpcRet EXCEPT ![c] =
                            Returned(c, "ok", UnknownKeyPayload, 0, "none")]
            /\ rpcArg' = [rpcArg EXCEPT ![c] = NoCall]
            /\ rpcPc' = [rpcPc EXCEPT ![c] = "returned"]
    /\ UNCHANGED <<calls, chan, callsReaders, rwPolicy, drvPc, drvArg,
                   lastRegistered, keyPanics, rpcOps>>
    /\ UNCHANGED <<svcVars, evVars, extVars>>

\* call_raw, lines 194-200: calls.read(), then calls.get(key); an unknown key
\* returns at once, a known one has its wrapper run under the read guard.
Lookup(c) ==
    /\ rpcPc[c] = "call_raw"
    /\ CanRead
    /\ IF rpcArg[c].key \in DOMAIN calls
       THEN LET l == calls[rpcArg[c].key] IN
            /\ callsReaders' = callsReaders \cup {c}
            /\ rpcArg' = [rpcArg EXCEPT ![c].kind = l.kind, ![c].f = l.f,
                                        ![c].ch = l.ch, ![c].reg = l.reg]
            /\ rpcPc' = [rpcPc EXCEPT ![c] = "wrapper"]
            /\ UNCHANGED rpcRet
       ELSE /\ rpcRet' = [rpcRet EXCEPT ![c] =
                            Returned(c, "ok", UnknownKeyPayload, 0, "none")]
            /\ rpcArg' = [rpcArg EXCEPT ![c] = NoCall]
            /\ rpcPc' = [rpcPc EXCEPT ![c] = "returned"]
            /\ UNCHANGED callsReaders
    /\ UNCHANGED <<calls, chan, rwPolicy, drvPc, drvArg, lastRegistered,
                   keyPanics, rpcOps>>
    /\ UNCHANGED <<svcVars, evVars, extVars>>

\* The wrapper of on_generic_call_fn runs on the caller's thread; the read
\* guard is dropped on return and on unwinding.
SyncWrapper(c) ==
    /\ rpcPc[c] = "wrapper"
    /\ rpcArg[c].kind = "fn"
    /\ LET r == SyncHandlerWrapper(rpcArg[c].f, rpcArg[c].body) IN
       /\ rpcRet' = [rpcRet EXCEPT ![c] =
             Returned(c, IF r.ok THEN "ok" ELSE "panic", r.out,
                      IF r.ran THEN 1 ELSE 0, IF r.ran THEN c ELSE "none")]
       /\ keyPanics' = IF r.ok THEN keyPanics ELSE keyPanics \cup {rpcArg[c].key}
    /\ callsReaders' = callsReaders \ {c}
    /\ rpcArg' = [rpcArg EXCEPT ![c] = NoCall]
    /\ rpcPc' = [rpcPc EXCEPT ![c] = "returned"]
    /\ UNCHANGED <<calls, chan, rwPolicy, drvPc, drvArg, lastRegistered, rpcOps>>
    /\ UNCHANGED <<svcVars, evVars, extVars>>

\* Mutant of AsyncLock: the wrapper does not take the per-key mutex.
AsyncLock_noMutex(c) ==
    /\ rpcPc[c] = "wrapper"
    /\ rpcArg[c].kind /= "fn"
    /\ LET ch == rpcArg[c].ch
           x == FromStr(rpcArg[c].body) IN
       /\ IF chan[ch].poisoned \/ ~x.ok
          THEN /\ chan' = [chan EXCEPT ![ch].poisoned = TRUE]
               /\ rpcRet' = [rpcRet EXCEPT ![c] =
                               Returned(c, "panic", << >>, 0, "none")]
               /\ keyPanics' = keyPanics \cup {rpcArg[c].key}
               /\ callsReaders' = callsReaders \ {c}
               /\ rpcArg' = [rpcArg EXCEPT ![c] = NoCall]
               /\ rpcPc' = [rpcPc EXCEPT ![c] = "returned"]
          ELSE /\ chan' = [chan EXCEPT ![ch].mutex = @ \cup {c}]
               /\ rpcPc' = [rpcPc EXCEPT ![c] = "locked"]
               /\ UNCHANGED <<rpcRet, keyPanics, callsReaders, rpcArg>>
    /\ UNCHANGED <<calls, rwPolicy, drvPc, drvArg, lastRegistered, rpcOps>>
    /\ UNCHANGED <<svcVars, evVars, extVars>>

\* Mutant of AsyncLock: a poisoned mutex is taken all the same (the guard of
\* the PoisonError is used).
AsyncLock_ignoresPoison(c) ==
    /\ rpcPc[c] = "wrapper"
    /\ rpcArg[c].kind /= "fn"
    /\ LET ch == rpcArg[c].ch
           x == FromStr(rpcArg[c].body) IN
       /\ chan[ch].mutex = {}
       /\ IF ~x.ok
          THEN /\ chan' = [chan EXCEPT ![ch].poisoned = TRUE]
               /\ rpcRet' = [rpcRet EXCEPT ![c] =
                               Returned(c, "panic", << >>, 0, "none")]
               /\ keyPanics' = keyPanics \cup {rpcArg[c].key}
               /\ callsReaders' = callsReaders \ {c}
               /\ rpcArg' = [rpcArg EXCEPT ![c] = NoCall]
               /\ rpcPc' = [rpcPc EXCEPT ![c] = "returned"]
          ELSE /\ chan' = [chan EXCEPT ![ch].mutex = {c}]
               /\ rpcPc' = [rpcPc EXCEPT ![c] = "locked"]
               /\ UNCHANGED <<rpcRet, keyPanics, callsReaders, rpcArg>>
    /\ UNCHANGED <<calls, rwPolicy, drvPc, drvArg, lastRegistered, rpcOps>>
    /\ UNCHANGED <<svcVars, evVars, extVars>>

\* The wrapper of the async kinds, lines 134-135 / 166-167: mpsc_mutex.lock()
\* and unwrap (a panic when poisoned), then from_str and unwrap (a panic that
\* poisons the mutex held).
AsyncLock(c) ==
    /\ rpcPc[c] = "wrapper"
    /\ rpcArg[c].kind /= "fn"
    /\ LET ch == rpcArg[c].ch
           x == FromStr(rpcArg[c].body) IN
       /\ chan[ch].mutex = {}
       /\ IF chan[ch].poisoned \/ ~x.ok
          THEN /\ chan' = [chan EXCEPT ![ch].poisoned = TRUE]
               /\ rpcRet' = [rpcRet EXCEPT ![c] =
                               Returned(c, "panic", << >>, 0, "none")]
               /\ keyPanics' = keyPanics \cup {rpcArg[c].key}
               /\ callsReaders' = callsReaders \ {c}
               /\ rpcArg' = [rpcArg EXCEPT ![c] = NoCall]
               /\ rpcPc' = [rpcPc EXCEPT ![c] = "returned"]
          ELSE /\ chan' = [chan EXCEPT ![ch].mutex = {c}]
               /\ rpcPc' = [rpcPc EXCEPT ![c] = "locked"]
               /\ UNCHANGED <<rpcRet, keyPanics, callsReaders, rpcArg>>
    /\ UNCHANGED <<calls, rwPolicy, drvPc, drvArg, lastRegistered, rpcOps>>
    /\ UNCHANGED <<svcVars, evVars, extVars>>

\* Mutant of AsyncSend: the key's mutex is released once the request is sent.
AsyncSend_unlocks(c) ==
    /\ rpcPc[c] = "locked"
    /\ LET ch == rpcArg[c].ch
           x == FromStr(rpcArg[c].body) IN
       /\ Len(chan[ch].req) < ChannelBound
       /\ chan' = [chan EXCEPT ![ch].req =
                      Append(@, [from |-> c, a |-> x.a, b |-> x.b]),
                               ![ch].mutex = {}]
    /\ rpcPc' = [rpcPc EXCEPT ![c] = "sent"]
    /\ UNCHANGED <<calls, callsReaders, rwPolicy, rpcArg, rpcRet, drvPc, drvArg,
                   lastRegistered, keyPanics, rpcOps>>
    /\ UNCHANGED <<svcVars, evVars, extVars>>

\* tx.send(input_value), lines 137 / 169: the request channel holds one.
AsyncSend(c) ==
    /\ rpcPc[c] = "locked"
    /\ LET ch == rpcArg[c].ch
           x == FromStr(rpcArg[c].body) IN
       /\ Len(chan[ch].req) < ChannelBound
       /\ chan' = [chan EXCEPT ![ch].req =
                      Append(@, [from |-> c, a |-> x.a, b |-> x.b])]
    /\ rpcPc' = [rpcPc EXCEPT ![c] = "sent"]
    /\ UNCHANGED <<calls, callsReaders, rwPolicy, rpcArg, rpcRet, drvPc, drvArg,
                   lastRegistered, keyPanics, rpcOps>>
    /\ UNCHANGED <<svcVars, evVars, extVars>>

\* Mutant of AsyncRecv: the response is not waited for (try_recv, with an
\* empty payload when there is none).
AsyncRecv_noWait(c) ==
    /\ rpcPc[c] = "sent"
    /\ LET ch == rpcArg[c].ch
           got == chan[ch].resp /= << >> IN
       /\ rpcRet' = [rpcRet EXCEPT ![c] =
             Returned(c, "ok",
                      IF got THEN ToStringOut(Head(chan[ch].resp)) ELSE EmptyObject,
                      rpcArg[c].execs, rpcArg[c].execBy)]
       /\ chan' = [chan EXCEPT ![ch].resp = IF got THEN Tail(@) ELSE @,
                               ![ch].mutex = {}]
    /\ callsReaders' = callsReaders \ {c}
    /\ rpcArg' = [rpcArg EXCEPT ![c] = NoCall]
    /\ rpcPc' = [rpcPc EXCEPT ![c] = "returned"]
    /\ UNCHANGED <<calls, rwPolicy, drvPc, drvArg, lastRegistered, keyPanics,
                   rpcOps>>
    /\ UNCHANGED <<svcVars, evVars, extVars>>

\* rx.recv() and to_string, lines 138-140 / 170-172; the mutex guard and the
\* read guard are dropped on return.
AsyncRecv(c) ==
    /\ rpcPc[c] = "sent"
    /\ LET ch == rpcArg[c].ch IN
       /\ chan[ch].resp /= << >>
       /\ rpcRet' = [rpcRet EXCEPT ![c] =
             Returned(c, "ok", ToStringOut(Head(chan[ch].resp)),
                      rpcArg[c].execs, rpcArg[c].execBy)]
       /\ chan' = [chan EXCEPT ![ch].resp = Tail(@), ![ch].mutex = {}]
    /\ callsReaders' = callsReaders \ {c}
    /\ rpcArg' = [rpcArg EXCEPT ![c] = NoCall]
    /\ rpcPc' = [rpcPc EXCEPT ![c] = "returned"]
    /\ UNCHANGED <<calls, rwPolicy, drvPc, drvArg, lastRegistered, keyPanics,
                   rpcOps>>
    /\ UNCHANGED <<svcVars, evVars, extVars>>

\* handle_rpc_call, lines 141-142: the reply is made from what call_raw
\* returned and the task ends.
Reply(c) ==
    /\ rpcPc[c] = "returned"
    /\ rpcRet' = [rpcRet EXCEPT ![c] = NoResult]
    /\ rpcPc' = [rpcPc EXCEPT ![c] = "idle"]
    /\ UNCHANGED <<calls, chan, callsReaders, rwPolicy, rpcArg, drvPc, drvArg,
                   lastRegistered, keyPanics, rpcOps>>
    /\ UNCHANGED <<svcVars, evVars, extVars>>

\* The record of one run of a user closure by the driving thread, kept with
\* the call of the request's sender (with its last result once it returned).
ExecArg(c) ==
    IF c \in Callers /\ rpcPc[c] \notin {"idle", "returned"}
    THEN [rpcArg EXCEPT ![c].execs = @ + 1,
                        ![c].execBy = IF @ \in {"none", "driver"}
                                      THEN "driver" ELSE "mixed"]
    ELSE rpcArg

ExecRet(c) ==
    IF c \in Callers /\ rpcPc[c] = "returned"
    THEN [rpcRet EXCEPT ![c].execs = @ + 1,
                        ![c].execBy = IF @ \in {"none", "driver"}
                                      THEN "driver" ELSE "mixed"]
    ELSE rpcRet

\* Mutant of TryHandle: the closure is entered whether or not a request was
\* found.
TryHandle_blind(ch) ==
    /\ drvPc = "idle"
    /\ chan[ch].kind = "async"
    /\ LET r == TryRecv(chan[ch].req) IN
       /\ chan' = [chan EXCEPT ![ch].req = r.rest]
       /\ drvArg' = [NoDrv EXCEPT !.kind = "async", !.ch = ch,
                                  !.key = chan[ch].key,
                                  !.f = chan[ch].f, !.req = r.req]
       /\ drvPc' = "closure"
    /\ UNCHANGED <<calls, callsReaders, rwPolicy, rpcPc, rpcArg, rpcRet,
                   lastRegistered, keyPanics, rpcOps>>
    /\ UNCHANGED <<svcVars, evVars, extVars>>

\* AsyncHandler::try_handle, line 49: request_rx.try_recv(); with no request
\* the step is over, with one the closure is entered.
TryHandle(ch) ==
    /\ drvPc = "idle"
    /\ chan[ch].kind = "async"
    /\ LET r == TryRecv(chan[ch].req) IN
       IF r.some
       THEN /\ chan' = [chan EXCEPT ![ch].req = r.rest]
            /\ drvArg' = [NoDrv EXCEPT !.kind = "async", !.ch = ch,
                                       !.key = chan[ch].key,
                                       !.f = chan[ch].f, !.req = r.req]
            /\ drvPc' = "closure"
       ELSE UNCHANGED <<chan, drvArg, drvPc>>
    /\ UNCHANGED <<calls, callsReaders, rwPolicy, rpcPc, rpcArg, rpcRet,
                   lastRegistered, keyPanics, rpcOps>>
    /\ UNCHANGED <<svcVars, evVars, extVars>>

\* AsyncHandler::try_handle, lines 51-53: the closure runs on the driver's
\* thread and its result is sent on the response channel.
HandleRequest ==
    /\ drvPc = "closure"
    /\ LET ch == drvArg.ch IN
       /\ Len(chan[ch].resp) < ChannelBound
       /\ chan' = [chan EXCEPT ![ch].resp = Append(@, Apply(drvArg.f, drvArg.req))]
    /\ rpcArg' = ExecArg(drvArg.req.from)
    /\ rpcRet' = ExecRet(drvArg.req.from)
    /\ drvArg' = NoDrv
    /\ drvPc' = "idle"
    /\ UNCHANGED <<calls, callsReaders, rwPolicy, rpcPc, lastRegistered,
                   keyPanics, rpcOps>>
    /\ UNCHANGED <<svcVars, evVars, extVars>>

\* Mutant of TryReceive: pending_response is set on every try_receive.
TryReceive_always(ch) ==
    /\ drvPc = "idle"
    /\ chan[ch].kind = "receiver"
    /\ LET r == TryRecv(chan[ch].req) IN
       IF r.some
       THEN chan' = [chan EXCEPT ![ch].req = r.rest, ![ch].pending = TRUE,
                                 ![ch].taken = r.req]
       ELSE chan' = [chan EXCEPT ![ch].pending = TRUE]
    /\ UNCHANGED <<calls, callsReaders, rwPolicy, rpcPc, rpcArg, rpcRet, drvPc,
                   drvArg, lastRegistered, keyPanics, rpcOps>>
    /\ UNCHANGED <<svcVars, evVars, extVars>>

\* RequestAsyncReceiver::try_receive, lines 21-27: a request found is taken
\* and sets pending_response; with none found nothing changes.
TryReceive(ch) ==
    /\ drvPc = "idle"
    /\ chan[ch].kind = "receiver"
    /\ LET r == TryRecv(chan[ch].req) IN
       IF r.some
       THEN chan' = [chan EXCEPT ![ch].req = r.rest, ![ch].pending = TRUE,
                                 ![ch].taken = r.req]
       ELSE UNCHANGED chan
    /\ UNCHANGED <<calls, callsReaders, rwPolicy, rpcPc, rpcArg, rpcRet, drvPc,
                   drvArg, lastRegistered, keyPanics, rpcOps>>
    /\ UNCHANGED <<svcVars, evVars, extVars>>

\* RequestAsyncReceiver::send_response, by an owner that answers the request
\* it took with its own logic f: the send, then pending_response is cleared.
SendResponse(ch) ==
    /\ drvPc = "idle"
    /\ chan[ch].kind = "receiver"
    /\ chan[ch].pending
    /\ Len(chan[ch].resp) < ChannelBound
    /\ chan' = [chan EXCEPT ![ch].resp = Append(@, Apply(chan[ch].f, chan[ch].taken)),
                            ![ch].pending = FALSE,
                            ![ch].taken = NoReq]
    /\ rpcArg' = ExecArg(chan[ch].taken.from)
    /\ rpcRet' = ExecRet(chan[ch].taken.from)
    /\ UNCHANGED <<calls, callsReaders, rwPolicy, rpcPc, drvPc, drvArg,
                   lastRegistered, keyPanics, rpcOps>>
    /\ UNCHANGED <<svcVars, evVars, extVars>>

NextRpc ==
    \/ \E h \in Handlers, key \in Keys : RegisterBegin(h.kind, key, h.f)
    \/ RegisterCommit
    \/ \E c \in Callers, key \in Keys, body \in Payloads : CallRaw(c, key, body)
    \/ \E c \in Callers : Lookup(c)
    \/ \E c \in Callers : SyncWrapper(c)
    \/ \E c \in Callers : AsyncLock(c)
    \/ \E c \in Callers : AsyncSend(c)
    \/ \E c \in Callers : AsyncRecv(c)
    \/ \E c \in Callers : Reply(c)
    \/ \E ch \in 1..Len(chan) : TryHandle(ch)
    \/ HandleRequest
    \/ \E ch \in 1..Len(chan) : TryReceive(ch)
    \/ \E ch \in 1..Len(chan) : SendResponse(ch)

SpecRpc == InitRpc /\ [][NextRpc]_vars

SpecRpcWriterFirst == InitRpcWriterFirst /\ [][NextRpc]_vars

\* The threads run whenever a step of theirs can be taken.
SpecRpcWriterFirstFair == SpecRpcWriterFirst /\ WF_vars(NextRpc)

\* The closure that try_handle runs (line 52) calls call_raw on the key it
\* is serving, on the driver's thread.
ClosureCallRaw(body) ==
    /\ drvPc = "closure"
    /\ rpcOps < MaxRpcOps
    /\ drvArg' = [drvArg EXCEPT !.body = body]
    /\ drvPc' = "nested_call_raw"
    /\ rpcOps' = rpcOps + 1
    /\ UNCHANGED <<calls, chan, callsReaders, rwPolicy, rpcPc, rpcArg, rpcRet,
                   lastRegistered, keyPanics>>
    /\ UNCHANGED <<svcVars, evVars, extVars>>

\* Mutant of NestedCall: the per-key mutex lets the thread that drives the
\* key in.
NestedCall_reentrant ==
    /\ \/ /\ drvPc = "nested_call_raw"
          /\ CanRead
          /\ callsReaders' = callsReaders \cup {"driver"}
          /\ drvPc' = "nested_wrapper"
          /\ UNCHANGED <<chan, drvArg>>
       \/ /\ drvPc = "nested_wrapper"
          /\ chan' = [chan EXCEPT ![drvArg.ch].mutex = @ \cup {"driver"}]
          /\ drvPc' = "nested_locked"
          /\ UNCHANGED <<callsReaders, drvArg>>
    /\ UNCHANGED <<calls, rwPolicy, rpcPc, rpcArg, rpcRet, lastRegistered,
                   keyPanics, rpcOps>>
    /\ UNCHANGED <<svcVars, evVars, extVars>>

\* The call_raw made by the closure, step by step as for any caller:
\* calls.read() and the lookup of the key (the one being served, so it is in
\* the table with this channel), mpsc_mutex.lock() with from_str, tx.send,
\* rx.recv and the return into the closure.
NestedCall ==
    /\ \/ /\ drvPc = "nested_call_raw"
          /\ CanRead
          /\ callsReaders' = callsReaders \cup {"driver"}
          /\ drvPc' = "nested_wrapper"
          /\ UNCHANGED <<chan, drvArg>>
       \/ /\ drvPc = "nested_wrapper"
          /\ chan[drvArg.ch].mutex = {}
          /\ IF chan[drvArg.ch].poisoned \/ ~FromStr(drvArg.body).ok
             THEN /\ chan' = [chan EXCEPT ![drvArg.ch].poisoned = TRUE]
                  /\ callsReaders' = callsReaders \ {"driver"}
                  /\ drvPc' = "panicked"
             ELSE /\ chan' = [chan EXCEPT ![drvArg.ch].mutex = {"driver"}]
                  /\ drvPc' = "nested_locked"
                  /\ UNCHANGED callsReaders
          /\ UNCHANGED drvArg
       \/ /\ drvPc = "nested_locked"
          /\ Len(chan[drvArg.ch].req) < ChannelBound
          /\ chan' = [chan EXCEPT ![drvArg.ch].req =
                         Append(@, [from |-> "driver",
                                    a |-> FromStr(drvArg.body).a,
                                    b |-> FromStr(drvArg.body).b])]
          /\ drvPc' = "nested_sent"
          /\ UNCHANGED <<callsReaders, drvArg>>
       \/ /\ drvPc = "nested_sent"
          /\ chan[drvArg.ch].resp /= << >>
          /\ chan' = [chan EXCEPT ![drvArg.ch].resp = Tail(@),
                                  ![drvArg.ch].mutex = {}]
          /\ callsReaders' = callsReaders \ {"driver"}
          /\ drvArg' = [drvArg EXCEPT !.body = << >>]
          /\ drvPc' = "closure"
    /\ UNCHANGED <<calls, rwPolicy, rpcPc, rpcArg, rpcRet, lastRegistered,
                   keyPanics, rpcOps>>
    /\ UNCHANGED <<svcVars, evVars, extVars>>

\* The dispatcher with closures that call back into the key they serve.
NextRpcNested ==
    \/ NextRpc
    \/ \E body \in Payloads : ClosureCallRaw(body)
    \/ NestedCall

SpecRpcNested == InitRpc /\ [][NextRpcNested]_vars

\* The steps of the thread that drives the async keys: one try_handle, or one
\* try_receive or send_response of a receiver's owner.
DriverPoll ==
    \/ \E ch \in 1..Len(chan) : TryHandle(ch)
    \/ HandleRequest
    \/ \E ch \in 1..Len(chan) : TryReceive(ch)
    \/ \E ch \in 1..Len(chan) : SendResponse(ch)

\* The steps of a thread inside call_raw and of the gate's reply.
CallerStep(c) ==
    \/ Lookup(c)
    \/ SyncWrapper(c)
    \/ AsyncLock(c)
    \/ AsyncSend(c)
    \/ AsyncRecv(c)
    \/ Reply(c)

\* The driver keeps invoking its non-blocking step and a thread inside a call
\* runs whenever it can.
SpecRpcFair ==
    /\ SpecRpc
    /\ WF_vars(DriverPoll)
    /\ \A c \in Callers : WF_vars(CallerStep(c))

(***************************************************************************)
(*                   PROPERTIES OF THE CALL DISPATCHER                     *)
(***************************************************************************)
\* The callers whose call_raw has returned and not yet been replied.
Back == {c \in Callers : rpcPc[c] = "returned"}

\* The callers that hold the table's read guard with a handler looked up.
Served == {c \in Callers : rpcPc[c] \in {"wrapper", "locked", "sent"}}

\* C6: when a sync handler computing f is the one registered for key k, a
\* call_raw(k, serialize(x)) with a valid input x returns serialize(f(x)),
\* and f has run exactly once, on the calling thread, before the return.
SyncRoundTrip ==
    \A c \in Back : \A x \in Inputs :
        (rpcRet[c].latest.kind = "fn" /\ rpcRet[c].body = ToStringIn(x)) =>
            /\ rpcRet[c].status = "ok"
            /\ rpcRet[c].out = ToStringOut(Apply(rpcRet[c].latest.f, x))
            /\ rpcRet[c].execs = 1
            /\ rpcRet[c].execBy = c

\* Both closures have answered {a:2,b:3}: sum with {result:5} for one caller
\* and mul with {result:6} for the other.
SyncRoundTripWitness ==
    \E c, d \in Back :
        /\ rpcRet[c].latest.kind = "fn" /\ rpcRet[c].latest.f = "sum"
        /\ rpcRet[c].out = ToStringOut(5)
        /\ rpcRet[d].latest.kind = "fn" /\ rpcRet[d].latest.f = "mul"
        /\ rpcRet[d].out = ToStringOut(6)

\* A call on a key that has no handler and is not being given one.
OnUnknownKey(c) ==
    /\ rpcPc[c] = "call_raw"
    /\ rpcArg[c].key \notin DOMAIN calls
    /\ ~(drvPc = "registering" /\ drvArg.key = rpcArg[c].key)

\* C7: call_raw on a key with no handler returns the empty-object payload,
\* which the gate answers with 200, for every payload and without running a
\* handler; and in every reachable state such a call gets past the table
\* lookup (it never stays blocked), whatever other calls are in flight.
UnknownKeyNeverBlocks ==
    /\ [](\A c \in Back :
            rpcRet[c].latest = NoReg =>
                /\ rpcRet[c].status = "ok"
                /\ rpcRet[c].out = EmptyObject
                /\ rpcRet[c].http = 200
                /\ rpcRet[c].execs = 0)
    /\ \A c \in Callers : OnUnknownKey(c) ~> (rpcPc[c] /= "call_raw")

\* A call that a sync handler is about to serve with a payload that does not
\* deserialize to the handler's input type.
BadSyncCall(c) ==
    /\ rpcPc[c] = "wrapper"
    /\ rpcArg[c].kind = "fn"
    /\ ~FromStr(rpcArg[c].body).ok

\* C8: call_raw on a sync key with a payload that does not deserialize ends
\* that call in a panic: the user handler is not run and no payload is
\* returned. The failing step changes nothing but the call itself (the table,
\* the channels and the other calls stay as they were, the read guard is
\* given back), and a call made on the key after the failure with a valid x
\* returns serialize(f(x)).
BadPayloadIsFatalAndConfined ==
    /\ [](\A c \in Back :
            (rpcRet[c].latest.kind = "fn" /\ ~FromStr(rpcRet[c].body).ok) =>
                /\ rpcRet[c].status = "panic"
                /\ rpcRet[c].out = << >>
                /\ rpcRet[c].execs = 0
                /\ rpcRet[c].http /= 200)
    /\ [](\A c \in Back : \A x \in Inputs :
            (/\ rpcRet[c].afterPanic
             /\ rpcRet[c].latest.kind = "fn"
             /\ rpcRet[c].body = ToStringIn(x)) =>
                /\ rpcRet[c].status = "ok"
                /\ rpcRet[c].out = ToStringOut(Apply(rpcRet[c].latest.f, x)))
    /\ [][\A c \in Callers :
            (BadSyncCall(c) /\ rpcPc'[c] /= rpcPc[c]) =>
                /\ calls' = calls
                /\ chan' = chan
                /\ lastRegistered' = lastRegistered
                /\ callsReaders' = callsReaders \ {c}
                /\ \A d \in Callers \ {c} :
                      /\ rpcPc'[d] = rpcPc[d]
                      /\ rpcArg'[d] = rpcArg[d]
                      /\ rpcRet'[d] = rpcRet[d]]_vars

\* One caller's call on a sync key has panicked on {a:"x",b:3} and the other
\* caller's later call on the same key and registration has returned a result.
BadPayloadIsFatalAndConfinedWitness ==
    \E c, d \in Back :
        /\ rpcRet[c].status = "panic"
        /\ rpcRet[c].kind = "fn"
        /\ rpcRet[d].afterPanic
        /\ rpcRet[d].key = rpcRet[c].key
        /\ rpcRet[d].reg = rpcRet[c].reg
        /\ rpcRet[d].status = "ok"
        /\ rpcRet[d].out = ToStringOut(Apply(rpcRet[c].latest.f, FromStr(rpcRet[d].body)))

\* C9: the table holds one handler per registered key, the one registered
\* last; every call is served by the handler registered last for its key, and
\* a handler that was replaced is never invoked again: its channel holds no
\* request, no response and no taken request, and no closure of it runs.
LastRegistrationWins ==
    /\ DOMAIN calls = {k \in Keys : lastRegistered[k].reg > 0}
    /\ \A k \in DOMAIN calls :
          /\ calls[k].reg = lastRegistered[k].reg
          /\ calls[k].kind = lastRegistered[k].kind
          /\ calls[k].f = lastRegistered[k].f
          /\ Cardinality({ch \in 1..Len(chan) :
                             chan[ch].key = k /\ chan[ch].open}) <= 1
    /\ \A c \in Served :
          /\ rpcArg[c].reg = lastRegistered[rpcArg[c].key].reg
          /\ rpcArg[c].f = lastRegistered[rpcArg[c].key].f
    /\ \A c \in Back :
          rpcRet[c].kind /= "none" =>
              /\ rpcRet[c].reg = rpcRet[c].latest.reg
              /\ rpcRet[c].kind = rpcRet[c].latest.kind
    /\ \A ch \in 1..Len(chan) :
          ~chan[ch].open =>
              /\ chan[ch].reg < lastRegistered[chan[ch].key].reg
              /\ chan[ch].req = << >>
              /\ chan[ch].resp = << >>
              /\ ~chan[ch].pending
              /\ chan[ch].mutex = {}
              /\ ~(drvPc = "closure" /\ drvArg.ch = ch)

\* A key was registered twice, with different closures; a call made before
\* the second registration was answered by the first handler and a call made
\* after it by the second.
LastRegistrationWinsWitness ==
    \E c, d \in Back :
        /\ rpcRet[c].key = rpcRet[d].key
        /\ rpcRet[c].reg = 1 /\ rpcRet[c].status = "ok"
        /\ rpcRet[d].reg = 2 /\ rpcRet[d].status = "ok"
        /\ rpcRet[c].out /= rpcRet[d].out
        /\ lastRegistered[rpcRet[d].key].reg = 2

\* The request of caller c is in the request channel ch or in the closure
\* the driver is running for ch.
RequestInFlight(c, ch) ==
    \/ \E i \in 1..Len(chan[ch].req) : chan[ch].req[i].from = c
    \/ drvPc = "closure" /\ drvArg.ch = ch /\ drvArg.req.from = c

\* The per-key mutex of the registration that served a returned call has
\* been poisoned (by a call on it with an invalid payload).
MutexPoisoned(r) ==
    \E ch \in 1..Len(chan) :
        chan[ch].key = r.key /\ chan[ch].reg = r.reg /\ chan[ch].poisoned

\* Before the request of a call on an async key is enqueued f has not run for
\* the call; once it is enqueued f has run at most once, and the response the
\* caller waits for is there only after the driver's try_handle has taken the
\* request and run f, on the driver's thread.
AsyncServedOnce ==
    \A c \in Served :
        rpcArg[c].kind = "async" =>
            /\ rpcPc[c] \in {"wrapper", "locked"} => rpcArg[c].execs = 0
            /\ rpcPc[c] = "sent" =>
                  /\ rpcArg[c].execs \in {0, 1}
                  /\ rpcArg[c].execs = 0 <=> RequestInFlight(c, rpcArg[c].ch)
                  /\ rpcArg[c].execs = 1 <=> chan[rpcArg[c].ch].resp /= << >>
                  /\ rpcArg[c].execs = 1 => rpcArg[c].execBy = "driver"

\* C10 as stated: every call_raw(k, serialize(x)) on an externally-polled
\* async key whose handler computes f returns serialize(f(x)), not before the
\* driver's try_handle has served it, and f has run exactly once for the call,
\* on the driver's thread.
AsyncBridgeEveryCall ==
    /\ \A c \in Back : \A x \in Inputs :
          (rpcRet[c].kind = "async" /\ rpcRet[c].body = ToStringIn(x)) =>
              /\ rpcRet[c].status = "ok"
              /\ rpcRet[c].out = ToStringOut(Apply(rpcRet[c].latest.f, x))
              /\ rpcRet[c].execs = 1
              /\ rpcRet[c].execBy = "driver"
    /\ AsyncServedOnce

\* C10, amended: a call_raw(k, serialize(x)) on an externally-polled async
\* key whose handler computes f either returns serialize(f(x)), not before
\* the driver's try_handle has served it and with f run exactly once for the
\* call on the driver's thread, or fails with f not run at all, and that only
\* when the key's mutex has been poisoned by a call with an invalid payload.
AsyncBridge ==
    /\ \A c \in Back : \A x \in Inputs :
          (rpcRet[c].kind = "async" /\ rpcRet[c].body = ToStringIn(x)) =>
              \/ /\ rpcRet[c].status = "ok"
                 /\ rpcRet[c].out = ToStringOut(Apply(rpcRet[c].latest.f, x))
                 /\ rpcRet[c].execs = 1
                 /\ rpcRet[c].execBy = "driver"
              \/ /\ rpcRet[c].status = "panic"
                 /\ MutexPoisoned(rpcRet[c])
                 /\ rpcRet[c].execs = 0
    /\ AsyncServedOnce

\* A call on an async key computing mul has returned {result:6} for
\* {a:2,b:3} after one run of the closure by the driver.
AsyncBridgeWitness ==
    \E c \in Back :
        /\ rpcRet[c].kind = "async"
        /\ rpcRet[c].status = "ok"
        /\ rpcRet[c].out = ToStringOut(6)
        /\ rpcRet[c].execs = 1
        /\ rpcRet[c].execBy = "driver"

\* A call that a handler of one of the async kinds is serving.
InAsyncCall(c) == c \in Served /\ rpcArg[c].kind /= "fn"

\* C11: while the driving thread keeps coming back to its non-blocking step
\* (it does not stay inside a registration or a closure for ever), every
\* call_raw on an async key is eventually over, a call that holds the key's
\* mutex with its response, also one that waited for the mutex behind another
\* caller; and a call on an async key returns a response only after the
\* driver has served its request, so with a driver that never polls it never
\* returns.
AsyncBridgeLiveness ==
    /\ \/ <>[](drvPc /= "idle")
       \/ \A c \in Callers :
             /\ InAsyncCall(c) ~> (rpcPc[c] = "returned")
             /\ (InAsyncCall(c) /\ rpcPc[c] \in {"locked", "sent"})
                   ~> (rpcPc[c] = "returned" /\ rpcRet[c].status = "ok")
    /\ [][\A c \in Callers :
            (InAsyncCall(c) /\ rpcPc'[c] = "returned"
                 /\ rpcRet'[c].status = "ok") =>
                rpcArg[c].execs = 1]_vars

\* One caller has its request served by the driver and its response waiting;
\* the other caller of the same key waits for the key's mutex behind it.
AsyncBridgeLivenessWitness ==
    \E c, d \in Callers :
        /\ rpcPc[c] = "sent" /\ rpcArg[c].execs = 1
        /\ rpcPc[d] = "wrapper"
        /\ rpcArg[d].ch = rpcArg[c].ch
        /\ rpcArg[d].ch /= 0

\* The callers whose call holds the mutex of channel ch.
Holders(ch) ==
    {c \in Callers : rpcPc[c] \in {"locked", "sent"} /\ rpcArg[c].ch = ch}

\* The callers that have a request or a response under way on channel ch: in
\* the request channel, taken by try_receive, in the driver's closure, or
\* answered in the response channel.
UnderWay(ch) ==
    {chan[ch].req[i].from : i \in 1..Len(chan[ch].req)}
        \cup (IF chan[ch].pending THEN {chan[ch].taken.from} ELSE {})
        \cup (IF drvPc = "closure" /\ drvArg.ch = ch THEN {drvArg.req.from} ELSE {})
        \cup (IF chan[ch].resp /= << >> THEN Holders(ch) ELSE {})

\* C12: calls into one async key (externally polled or caller polled) are
\* single-flight: one call at a time holds the key's mutex, and whatever is in
\* the key's request channel, taken by its poller or in its response channel
\* belongs to that call; the request of the next call is enqueued only after
\* the holder has received its response and returned.
SingleFlight ==
    \A ch \in 1..Len(chan) :
        /\ Cardinality(Holders(ch)) <= 1
        /\ chan[ch].mutex = Holders(ch)
        /\ UnderWay(ch) \subseteq Holders(ch)
        /\ Len(chan[ch].req) + Len(chan[ch].resp)
              + (IF chan[ch].pending THEN 1 ELSE 0)
              + (IF drvPc = "closure" /\ drvArg.ch = ch THEN 1 ELSE 0)
              <= Cardinality({c \in Holders(ch) : rpcPc[c] = "sent"})

\* Two calls were made into one caller-polled key: the first has returned
\* with its response, and the request of the second has been taken by the
\* owner's try_receive.
SingleFlightWitness ==
    \E c, d \in Callers :
        /\ c \in Back /\ rpcRet[c].kind = "receiver" /\ rpcRet[c].status = "ok"
        /\ rpcPc[d] = "sent" /\ rpcArg[d].key = rpcRet[c].key
        /\ rpcArg[d].reg = rpcRet[c].reg
        /\ chan[rpcArg[d].ch].pending
        /\ chan[rpcArg[d].ch].taken.from = d

\* Caller d has entered call_raw on a key that has a sync handler or none,
\* while another caller is inside a call on a different key of an async kind.
BesideAsyncCall(d) ==
    /\ rpcPc[d] = "call_raw"
    /\ rpcArg[d].key \in DOMAIN calls => calls[rpcArg[d].key].kind = "fn"
    /\ ~(drvPc = "registering" /\ drvArg.key = rpcArg[d].key)
    /\ \E c \in Callers \ {d} :
          InAsyncCall(c) /\ rpcArg[c].key /= rpcArg[d].key

\* C13: dispatching readers do not block each other: a call_raw on a key
\* with a sync handler or with no handler, made while another call is blocked
\* on a different, async key, gets the table and completes; it waits neither
\* for that call nor for the driver of that key.
ReadersDoNotBlock ==
    \A d \in Callers :
        BesideAsyncCall(d) ~> (rpcPc[d] = "returned")

\* The driver's thread is inside a call_raw made by the closure it runs.
InNestedCall == drvPc \in {"nested_call_raw", "nested_wrapper"}

\* C14: a call_raw on async key k made from inside the closure that
\* try_handle runs for a request on k deadlocks. The nested call never gets
\* the key's mutex, which the outer caller holds, and so never returns; the
\* driver stays in the closure and never publishes the outer response; the
\* outer caller stays in rx.recv() and never returns.
NestedCallDeadlocks ==
    /\ [](drvPc \notin {"nested_locked", "nested_sent", "panicked"})
    /\ [](InNestedCall =>
            /\ rpcPc[drvArg.req.from] = "sent"
            /\ rpcArg[drvArg.req.from].ch = drvArg.ch
            /\ chan[drvArg.ch].mutex = {drvArg.req.from}
            /\ chan[drvArg.ch].resp = << >>
            /\ ~ENABLED AsyncRecv(drvArg.req.from))
    /\ [][InNestedCall =>
            /\ InNestedCall'
            /\ drvArg'.req = drvArg.req
            /\ rpcPc'[drvArg.req.from] = "sent"
            /\ chan'[drvArg.ch].resp = << >>]_vars

\* The closure serving a request on k has called call_raw on k; the nested
\* call has the table's read guard and waits for the key's mutex.
NestedCallDeadlocksWitness ==
    /\ drvPc = "nested_wrapper"
    /\ "driver" \in callsReaders
    /\ rpcPc[drvArg.req.from] = "sent"
    /\ calls[drvArg.key].ch = drvArg.ch

\* The channels of the caller-polled receivers.
Receivers == {ch \in 1..Len(chan) : chan[ch].kind = "receiver"}

\* A request from channel ch has been taken and not yet answered: a caller
\* holds the key's mutex past its send, and neither its request nor a
\* response for it is in the channel pair.
TakenUnanswered(ch) ==
    /\ \E c \in Holders(ch) : rpcPc[c] = "sent"
    /\ chan[ch].req = << >>
    /\ chan[ch].resp = << >>

\* C15: pending_response of a caller-polled receiver is false when the
\* receiver is made and true exactly while a request taken by try_receive has
\* not been answered by send_response: it becomes true only in a step that
\* takes a request out of the request channel, and false only in a step that
\* puts a response into the response channel.
PendingFlagExact ==
    /\ [](\A ch \in 1..Len(chan) :
            /\ chan[ch].pending => ch \in Receivers
            /\ ch \in Receivers => (chan[ch].pending <=> TakenUnanswered(ch))
            /\ chan[ch].pending => chan[ch].taken.from \in Holders(ch))
    /\ [][\A ch \in 1..Len(chan') :
            IF ch \in 1..Len(chan)
            THEN /\ (~chan[ch].pending /\ chan'[ch].pending) =>
                       /\ chan[ch].req /= << >>
                       /\ chan'[ch].req = Tail(chan[ch].req)
                       /\ chan'[ch].taken = Head(chan[ch].req)
                 /\ (chan[ch].pending /\ ~chan'[ch].pending) =>
                       Len(chan'[ch].resp) = Len(chan[ch].resp) + 1
            ELSE ~chan'[ch].pending]_vars

\* The owner of a caller-polled receiver has taken the request of a caller
\* that waits for the response, and has not answered it yet.
PendingFlagExactWitness ==
    \E ch \in Receivers : \E c \in Callers :
        /\ chan[ch].pending
        /\ chan[ch].taken.from = c
        /\ rpcPc[c] = "sent" /\ rpcArg[c].ch = ch
        /\ chan[ch].open

(***************************************************************************)
(*                    EVENT BUS AND INSTANT-JOB POOL                       *)
(***************************************************************************)
\* The keys events are emitted and listened to under.
EvKeys == {"e1", "e2"}

\* The event types: {value: u64} and {value: String}.
EvTypes == {"num", "str"}

\* The values emitted: {value: 21} and {value: "value 1"} (the string's text
\* is named by a number).
EvValues == {[ty |-> "num", val |-> 21], [ty |-> "str", val |-> 1]}

\* What a listener's user logic does once it has the event: it returns, or it
\* never returns.
Logics == {"returns", "blocks"}

\* serde_json::to_string of an event value.
ToStringEv(v) == <<Member("value", v.ty, v.val)>>

\* serde_json::from_str into the event type ty: the one field, of that type.
FromStrEv(ty, doc) ==
    IF /\ Cardinality(MembersNamed(doc, "value")) = 1
       /\ doc[CHOOSE i \in MembersNamed(doc, "value") : TRUE].kind = ty
    THEN [ok |-> TRUE, ty |-> ty, val |-> FieldVal(doc, "value")]
    ELSE [ok |-> FALSE, ty |-> "none", val |-> 0]

\* A table that puts the new listener in front of those of its key.
KeyPush_front(m, k, l) ==
    [x \in (DOMAIN m) \cup {k} |->
        IF x = k THEN (IF k \in DOMAIN m THEN <<l>> \o m[k] ELSE <<l>>)
                 ELSE m[x]]

\* add_raw_listener, lines 84-91: the listener is pushed to the Vec of its
\* key, made if the key had none.
KeyPush(m, k, l) ==
    [x \in (DOMAIN m) \cup {k} |->
        IF x = k THEN (IF k \in DOMAIN m THEN Append(m[k], l) ELSE <<l>>)
                 ELSE m[x]]

\* send_raw_event, line 96: events.get(key), the listeners iterated.
ListenersOf(m, k) == IF k \in DOMAIN m THEN m[k] ELSE << >>

\* send_to_observers, line 111: observers.iter().
ObserverIter(obs) == obs

\* A pool whose execute waits for a free worker.
CanExecute_freeWorker(q, r) == Cardinality(r) < PoolSize

\* ThreadPool::execute sends the job on the pool's unbounded channel: it
\* takes the job whatever the queue holds and whatever the workers do.
CanExecute(q, r) == TRUE

\* on_generic_event_fn: the wrapper is made and add_raw_listener pushes it
\* under events.write().
OnGenericEventFn(key, ty, logic) ==
    /\ Len(listeners) < MaxListeners
    /\ evReaders = {}
    /\ listeners' = Append(listeners, [key |-> key, ty |-> ty, logic |-> logic])
    /\ events' = KeyPush(events, key, Len(listeners) + 1)
    /\ UNCHANGED <<observers, evReaders, obsReaders, evPc, evArg, evRet,
                   emitted, submitted, queue, running, done>>
    /\ UNCHANGED <<svcVars, rpcVars, extVars>>

\* EventEmitterGate::add_raw_observer: pushed under observers.write().
AddRawObserver ==
    /\ Len(observers) < MaxObservers
    /\ obsReaders = {}
    /\ observers' = Append(observers, Len(observers) + 1)
    /\ UNCHANGED <<events, listeners, evReaders, obsReaders, evPc, evArg, evRet,
                   emitted, submitted, queue, running, done>>
    /\ UNCHANGED <<svcVars, rpcVars, extVars>>

\* emit / emit_event, lines 68 and 76-77: the value is serialized.
Emit(t, key, v) ==
    /\ evPc[t] = "idle"
    /\ Len(emitted) < MaxEmits
    /\ emitted' = Append(emitted, [key |-> key, val |-> v])
    /\ evArg' = [evArg EXCEPT ![t] =
                   [NoEmit EXCEPT !.key = key, !.data = ToStringEv(v),
                                  !.em = Len(emitted) + 1]]
    /\ evPc' = [evPc EXCEPT ![t] = "send_raw_event"]
    /\ UNCHANGED <<events, listeners, observers, evReaders, obsReaders, evRet,
                   submitted, queue, running, done>>
    /\ UNCHANGED <<svcVars, rpcVars, extVars>>

\* A wrapper that hands the pool a job without the decoded value.
ListenerWrapper_undecoded(ty, data) == [ok |-> TRUE, ty |-> ty, val |-> 0]

\* The wrapper made by on_generic_event_fn, line 44: from_str into the
\* listener's event type, and unwrap.
ListenerWrapper(ty, data) == FromStrEv(ty, data)

\* What an emit came back with: the observers it notified, with the
\* listeners and observers there were; a panic of emit unwinds the thread.
EmitResult(t, status, notified) ==
    [NoEmitResult EXCEPT !.status = status, !.key = evArg[t].key,
                         !.data = evArg[t].data, !.em = evArg[t].em,
                         !.notified = notified, !.observers = observers,
                         !.listeners = evArg[t].listeners]

\* send_raw_event, lines 95-96: events.read() and events.get(key).
SendRawEvent(t) ==
    /\ evPc[t] = "send_raw_event"
    /\ LET ls == ListenersOf(events, evArg[t].key) IN
       /\ evArg' = [evArg EXCEPT ![t].listeners = ls, ![t].next = 1]
       /\ IF ls = << >>
          THEN /\ evPc' = [evPc EXCEPT ![t] = "send_to_observers"]
               /\ UNCHANGED evReaders
          ELSE /\ evPc' = [evPc EXCEPT ![t] = "listeners"]
               /\ evReaders' = evReaders \cup {t}
    /\ UNCHANGED <<events, listeners, observers, obsReaders, evRet, emitted,
                   submitted, queue, running, done>>
    /\ UNCHANGED <<svcVars, rpcVars, extVars>>

\* send_raw_event, lines 97-100, for one listener: its wrapper decodes the
\* payload on the emitting thread (a panic of emit when it does not decode)
\* and run_instant_task hands the job with the decoded value to the pool;
\* after the last listener the read guard is dropped.
InvokeListener(t) ==
    /\ evPc[t] = "listeners"
    /\ LET l == evArg[t].listeners[evArg[t].next]
           r == ListenerWrapper(listeners[l].ty, evArg[t].data)
           last == evArg[t].next = Len(evArg[t].listeners) IN
       IF ~r.ok
       THEN /\ evRet' = [evRet EXCEPT ![t] = EmitResult(t, "panic", << >>)]
            /\ evArg' = [evArg EXCEPT ![t] = NoEmit]
            /\ evPc' = [evPc EXCEPT ![t] = "returned"]
            /\ evReaders' = evReaders \ {t}
            /\ UNCHANGED <<submitted, queue>>
       ELSE /\ CanExecute(queue, running)
            /\ submitted' = Append(submitted,
                               [lis |-> l, em |-> evArg[t].em,
                                val |-> [ty |-> r.ty, val |-> r.val]])
            /\ queue' = Append(queue, Len(submitted) + 1)
            /\ evArg' = [evArg EXCEPT ![t].next = @ + 1]
            /\ evPc' = [evPc EXCEPT ![t] =
                          IF last THEN "send_to_observers" ELSE "listeners"]
            /\ evReaders' = IF last THEN evReaders \ {t} ELSE evReaders
            /\ UNCHANGED evRet
    /\ UNCHANGED <<events, listeners, observers, obsReaders, emitted, running,
                   done>>
    /\ UNCHANGED <<svcVars, rpcVars, extVars>>

\* send_to_observers, lines 110-111: observers.read() and the iteration.
SendToObservers(t) ==
    /\ evPc[t] = "send_to_observers"
    /\ LET todo == ObserverIter(observers) IN
       IF todo = << >>
       THEN /\ evRet' = [evRet EXCEPT ![t] = EmitResult(t, "ok", << >>)]
            /\ evArg' = [evArg EXCEPT ![t] = NoEmit]
            /\ evPc' = [evPc EXCEPT ![t] = "returned"]
            /\ UNCHANGED obsReaders
       ELSE /\ evArg' = [evArg EXCEPT ![t].todo = todo]
            /\ evPc' = [evPc EXCEPT ![t] = "observers"]
            /\ obsReaders' = obsReaders \cup {t}
            /\ UNCHANGED evRet
    /\ UNCHANGED <<events, listeners, observers, evReaders, emitted, submitted,
                   queue, running, done>>
    /\ UNCHANGED <<svcVars, rpcVars, extVars>>

\* send_to_observers, lines 112-113, for one observer: it is called on the
\* emitting thread with the key and the serialized payload; after the last
\* one the read guard is dropped and emit returns.
NotifyObserver(t) ==
    /\ evPc[t] = "observers"
    /\ LET note == [obs |-> Head(evArg[t].todo), key |-> evArg[t].key,
                    data |-> evArg[t].data, by |-> t]
           notified == Append(evArg[t].notified, note) IN
       IF Tail(evArg[t].todo) = << >>
       THEN /\ evRet' = [evRet EXCEPT ![t] = EmitResult(t, "ok", notified)]
            /\ evArg' = [evArg EXCEPT ![t] = NoEmit]
            /\ evPc' = [evPc EXCEPT ![t] = "returned"]
            /\ obsReaders' = obsReaders \ {t}
       ELSE /\ evArg' = [evArg EXCEPT ![t].todo = Tail(@),
                                      ![t].notified = notified]
            /\ UNCHANGED <<evRet, evPc, obsReaders>>
    /\ UNCHANGED <<events, listeners, observers, evReaders, emitted, submitted,
                   queue, running, done>>
    /\ UNCHANGED <<svcVars, rpcVars, extVars>>

\* The caller of emit goes on.
EmitReturn(t) ==
    /\ evPc[t] = "returned"
    /\ evRet' = [evRet EXCEPT ![t] = NoEmitResult]
    /\ evPc' = [evPc EXCEPT ![t] = "idle"]
    /\ UNCHANGED <<events, listeners, observers, evReaders, obsReaders, evArg,
                   emitted, submitted, queue, running, done>>
    /\ UNCHANGED <<svcVars, rpcVars, extVars>>

\* A pool that starts a thread for every job it is handed.
WorkerTake_unbounded ==
    /\ queue /= << >>
    /\ running' = running \cup {Head(queue)}
    /\ queue' = Tail(queue)
    /\ UNCHANGED <<events, listeners, observers, evReaders, obsReaders, evPc,
                   evArg, evRet, emitted, submitted, done>>
    /\ UNCHANGED <<svcVars, rpcVars, extVars>>

\* A free worker of the pool takes the oldest job of the queue and calls the
\* listener's user logic with the decoded value (tasks.rs, lines 56-59).
WorkerTake ==
    /\ queue /= << >>
    /\ Cardinality(running) < PoolSize
    /\ running' = running \cup {Head(queue)}
    /\ queue' = Tail(queue)
    /\ UNCHANGED <<events, listeners, observers, evReaders, obsReaders, evPc,
                   evArg, evRet, emitted, submitted, done>>
    /\ UNCHANGED <<svcVars, rpcVars, extVars>>

\* The user logic of a job returns and its worker is free again; the logic of
\* some listeners never returns.
WorkerFinish(job) ==
    /\ job \in running
    /\ listeners[submitted[job].lis].logic = "returns"
    /\ running' = running \ {job}
    /\ done' = done \cup {job}
    /\ UNCHANGED <<events, listeners, observers, evReaders, obsReaders, evPc,
                   evArg, evRet, emitted, submitted, queue>>
    /\ UNCHANGED <<svcVars, rpcVars, extVars>>

\* The listeners the registrations choose from: on the first key a listener
\* of each event type, and one whose logic never returns; one listener on the
\* second key.
ListenerKinds ==
    {[key |-> "e1", ty |-> "num", logic |-> "returns"],
     [key |-> "e1", ty |-> "num", logic |-> "blocks"],
     [key |-> "e1", ty |-> "str", logic |-> "returns"],
     [key |-> "e2", ty |-> "num", logic |-> "returns"]}

\* The jobs there can be: one for each listener of each emission.
Jobs == 1..(MaxListeners * MaxEmits)

NextEv ==
    \/ \E k \in ListenerKinds : OnGenericEventFn(k.key, k.ty, k.logic)
    \/ AddRawObserver
    \/ \E t \in Emitters, key \in EvKeys, v \in EvValues : Emit(t, key, v)
    \/ \E t \in Emitters : SendRawEvent(t)
    \/ \E t \in Emitters : InvokeListener(t)
    \/ \E t \in Emitters : SendToObservers(t)
    \/ \E t \in Emitters : NotifyObserver(t)
    \/ \E t \in Emitters : EmitReturn(t)
    \/ WorkerTake
    \/ \E job \in Jobs : WorkerFinish(job)

SpecEv == InitRpc /\ [][NextEv]_vars

\* The emitting thread takes its steps, and the pool goes on: while a worker
\* can take a job or user logic can return, one of them does.
EmitterStep(t) ==
    \/ SendRawEvent(t)
    \/ InvokeListener(t)
    \/ SendToObservers(t)
    \/ NotifyObserver(t)
    \/ EmitReturn(t)

PoolStep == WorkerTake \/ \E job \in Jobs : WorkerFinish(job)

SpecEvFair ==
    /\ SpecEv
    /\ \A t \in Emitters : WF_vars(EmitterStep(t))
    /\ WF_vars(PoolStep)

\* The emitting thread takes its steps; nothing is assumed of the pool, whose
\* workers may never take a job and whose jobs may never return.
SpecEvEmitterFair ==
    /\ SpecEv
    /\ \A t \in Emitters : WF_vars(EmitterStep(t))

(***************************************************************************)
(*                       PROPERTIES OF THE EVENT BUS                       *)
(***************************************************************************)
\* The emitters whose emit has just come back, by return or by panic.
EmitBack == {t \in Emitters : evPc[t] = "returned"}

\* The jobs handed to the pool for listener l by emission em.
JobsOf(em, l) ==
    {j \in 1..Len(submitted) : submitted[j].em = em /\ submitted[j].lis = l}

\* The jobs whose listener logic has been called on a pool worker.
Invoked == running \cup done

\* Listener l can decode the serialized payload.
Decodes(l, data) == FromStrEv(listeners[l].ty, data).ok

\* What an observer is called with by emitter t for its emission.
NoteOf(t, o) ==
    [obs |-> o, key |-> emitted[evRet[t].em].key,
     data |-> ToStringEv(emitted[evRet[t].em].val), by |-> t]

\* All the workers of the pool run listener logic that never returns.
PoolStuck ==
    /\ Cardinality(running) = PoolSize
    /\ \A j \in running : listeners[submitted[j].lis].logic = "blocks"

\* Emitter t is back from an emission under a key with two listeners, one
\* observer registered, and a value both listeners decode.
FanOutCase(t) ==
    /\ t \in EmitBack
    /\ Len(evRet[t].listeners) = 2
    /\ Len(evRet[t].observers) = 1
    /\ \A i \in 1..2 : Decodes(evRet[t].listeners[i], evRet[t].data)

FanOutAtReturn ==
    \A t \in Emitters : FanOutCase(t) =>
        /\ evRet[t].status = "ok"
        /\ evRet[t].notified = <<NoteOf(t, evRet[t].observers[1])>>
        /\ \A i \in 1..2 :
              LET js == JobsOf(evRet[t].em, evRet[t].listeners[i]) IN
              /\ Cardinality(js) = 1
              /\ \A j \in js : submitted[j].val = emitted[evRet[t].em].val

\* Every job handed to the pool is in one place: waiting, on a worker, or
\* finished; and the workers are those of the pool.
JobsOnce ==
    /\ \A i, j \in 1..Len(queue) : queue[i] = queue[j] => i = j
    /\ \A i \in 1..Len(queue) : queue[i] \notin Invoked
    /\ running \cap done = {}
    /\ Invoked \cup {queue[i] : i \in 1..Len(queue)} = 1..Len(submitted)
    /\ Cardinality(running) <= PoolSize

\* C16: an emission of v under a key with listeners L1, L2 and one observer O
\* calls O once, on the emitting thread, with the key and the serialized v
\* before emit returns, and hands the pool one job per listener with the
\* decoded v; each job is called on a pool worker once, and no job is left
\* waiting (again and again the queue is empty), unless all the workers come
\* to be held by logic that never returns.
EventFanOut ==
    /\ [](FanOutAtReturn /\ JobsOnce)
    /\ []<>(queue = << >> \/ PoolStuck)

EventFanOutWitness ==
    \E t \in Emitters :
        /\ FanOutCase(t)
        /\ \A i \in 1..2 :
              JobsOf(evRet[t].em, evRet[t].listeners[i]) \subseteq done
        /\ evRet[t].listeners[1] /= evRet[t].listeners[2]

\* The observers emitter t's emission had to notify, each with the key and
\* the serialized payload, in registration order.
AllNotes(t) ==
    [i \in 1..Len(evRet[t].observers) |-> NoteOf(t, evRet[t].observers[i])]

\* The listeners on the key of emitter t's emission that cannot decode it.
Undecoding(t) ==
    {i \in 1..Len(evRet[t].listeners) :
        ~Decodes(evRet[t].listeners[i], evRet[t].data)}

\* C17: when the payload of an emission does not decode for a listener L1 of
\* its key, emit still returns normally, every other listener L2 of the key
\* still gets its job, and every observer is still notified.
ListenerIsolation ==
    \A t \in EmitBack : Undecoding(t) /= {} =>
        /\ evRet[t].status = "ok"
        /\ \A i \in 1..Len(evRet[t].listeners) : i \notin Undecoding(t) =>
              Cardinality(JobsOf(evRet[t].em, evRet[t].listeners[i])) = 1
        /\ evRet[t].notified = AllNotes(t)

\* C18: every emission, whatever its key and with or without listeners on it,
\* has called every registered observer once, in registration order, on the
\* emitting thread, with the key and the serialized payload when emit is
\* back; and an emission under a key without listeners returns normally.
ObserversEveryEmission ==
    \A t \in EmitBack :
        /\ evRet[t].notified = AllNotes(t)
        /\ evRet[t].listeners = << >> => evRet[t].status = "ok"

\* The same for the emissions every listener of the key decodes: this much
\* holds.
ObserversWhenDecoded ==
    \A t \in EmitBack : Undecoding(t) = {} =>
        /\ evRet[t].notified = AllNotes(t)
        /\ evRet[t].status = "ok"

\* Emitter t's emission gave listener number i of its key one job, holding
\* the value emitted.
Delivered(t, i) ==
    LET js == JobsOf(evRet[t].em, evRet[t].listeners[i]) IN
    /\ Cardinality(js) = 1
    /\ \A j \in js : submitted[j].val = emitted[evRet[t].em].val

\* No job of any emission is for a listener of another key than the
\* emission's, and the table keeps under each key the listeners registered
\* on it, in registration order.
NoOtherKey ==
    /\ \A j \in 1..Len(submitted) :
          listeners[submitted[j].lis].key = emitted[submitted[j].em].key
    /\ \A k \in DOMAIN events :
          /\ \A i \in 1..Len(events[k]) : listeners[events[k][i]].key = k
          /\ \A i, j \in 1..Len(events[k]) : i < j => events[k][i] < events[k][j]
    /\ \A l \in 1..Len(listeners) :
          /\ listeners[l].key \in DOMAIN events
          /\ \E i \in 1..Len(events[listeners[l].key]) :
                events[listeners[l].key][i] = l

\* C19: an event emitted under key k is delivered with its value to every
\* listener registered on k (of an event type that decodes it), once per
\* emission, and to no listener registered under another key.
KeyRouting ==
    /\ NoOtherKey
    /\ \A t \in EmitBack :
          \A i \in 1..Len(evRet[t].listeners) :
              i \notin Undecoding(t) => Delivered(t, i)

\* The same for the emissions every listener of the key decodes: this much
\* holds.
KeyRoutingWhenDecoded ==
    /\ NoOtherKey
    /\ \A t \in EmitBack : Undecoding(t) = {} =>
          \A i \in 1..Len(evRet[t].listeners) : Delivered(t, i)

\* The emitters inside emit.
Emitting == {t \in Emitters : evPc[t] \notin {"idle", "returned"}}

\* C20: emit never waits for listener logic: whatever the pool's workers do,
\* all of them held by logic that never returns included, the emitting
\* thread always has its next step, emit comes back, and when it returns it
\* has handed the pool one job per listener of the key and called the
\* observers.
EmitNeverWaits ==
    /\ [](\A t \in Emitting : ENABLED EmitterStep(t))
    /\ [](\A t \in EmitBack : evRet[t].status = "ok" =>
             /\ \A i \in 1..Len(evRet[t].listeners) : Delivered(t, i)
             /\ evRet[t].notified = AllNotes(t))
    /\ \A t \in Emitters : (t \in Emitting) ~> (t \in EmitBack)

EmitNeverWaitsWitness ==
    \E t \in EmitBack :
        /\ evRet[t].status = "ok"
        /\ PoolStuck
        /\ \E i \in 1..Len(queue) : submitted[queue[i]].em = evRet[t].em

\* C27: for one emission the jobs are handed to the pool in the registration
\* order of the key's listeners: when the job of a listener is submitted,
\* the job of every listener registered on the key before it has already
\* been submitted for the same emission, earlier and once.
SubmissionOrder ==
    \A j \in 1..Len(submitted) :
        \A l \in 1..(submitted[j].lis - 1) :
            listeners[l].key = listeners[submitted[j].lis].key =>
                /\ JobsOf(submitted[j].em, l) /= {}
                /\ \A i \in JobsOf(submitted[j].em, l) : i < j

SubmissionOrderWitness ==
    \E i, j \in 1..Len(submitted) :
        /\ i < j
        /\ submitted[i].em = submitted[j].em
        /\ submitted[i].lis < submitted[j].lis

\* The channels of the closure-driven async handlers.
AsyncChans == {ch \in 1..Len(chan) : chan[ch].kind = "async"}

\* The driving thread is never kept waiting inside try_handle: whenever it is
\* outside a step it can make one on any async handler, and once the closure
\* has run the response channel has room for its result.
TryHandleNonBlocking ==
    /\ drvPc = "idle" => \A ch \in AsyncChans : ENABLED TryHandle(ch)
    /\ drvPc = "closure" => ENABLED HandleRequest

\* What the steps of try_handle do to the channels of async handler ch.
TryHandleStep(ch) ==
    /\ (drvPc = "idle" /\ drvPc' = "closure" /\ drvArg'.ch = ch) =>
          /\ chan[ch].req /= << >>
          /\ chan'[ch].req = Tail(chan[ch].req)
          /\ drvArg'.req = Head(chan[ch].req)
          /\ chan'[ch].resp = chan[ch].resp
    /\ (chan'[ch].req /= chan[ch].req /\ Len(chan'[ch].req) < Len(chan[ch].req)) =>
          drvPc = "idle" /\ drvPc' = "closure" /\ drvArg'.ch = ch
    /\ chan'[ch].resp /= chan[ch].resp /\ Len(chan'[ch].resp) > Len(chan[ch].resp) =>
          /\ drvPc = "closure" /\ drvArg.ch = ch /\ drvPc' = "idle"
          /\ drvArg.req.from \in Callers
          /\ chan'[ch].resp =
                Append(chan[ch].resp, Apply(chan[ch].f, drvArg.req))
          /\ rpcArg'[drvArg.req.from].execs = rpcArg[drvArg.req.from].execs + 1
          /\ rpcArg[drvArg.req.from].execs = 0

\* C28: a try_handle step never waits and serves at most one request: with
\* no request pending the closure is not entered and no response is sent;
\* with one pending exactly that request is taken, the closure runs once on
\* it and exactly one response, the closure's result, is published.
TryHandleOneRequest ==
    /\ []TryHandleNonBlocking
    /\ [][\A ch \in AsyncChans : TryHandleStep(ch)]_vars

TryHandleOneRequestWitness ==
    \E c \in Callers :
        /\ rpcPc[c] = "sent"
        /\ rpcArg[c].kind = "async"
        /\ rpcArg[c].execs = 1
        /\ chan[rpcArg[c].ch].resp = <<6>>
        /\ chan[rpcArg[c].ch].req = << >>
        /\ drvPc = "idle"

(***************************************************************************)
(*             INITIALIZE ROUTINES INSIDE THE SERVICE CONTAINER            *)
(***************************************************************************)
\* The services that have an initialize routine: the task manager, the event
\* bus, the call dispatcher, and a feature service that initializes its
\* dependency itself.
CtxTypes == {"TaskManager", "EventEmitter", "Rpc", "Feature"}

\* Initialize routines that build their gate and do not register it.
Script_noGate(ty) ==
    CASE ty = "TaskManager" -> <<[op |-> "new", ty |-> ty]>>
      [] ty = "EventEmitter" -> <<[op |-> "get", ty |-> "TaskManager"],
                                  [op |-> "new", ty |-> ty]>>
      [] ty = "Rpc" -> <<[op |-> "new", ty |-> ty]>>
      [] ty = "Feature" -> <<[op |-> "init", ty |-> "TaskManager"],
                             [op |-> "get", ty |-> "TaskManager"],
                             [op |-> "new", ty |-> ty]>>

\* What each initialize routine does with the container, in order:
\* TaskManager::initialize (tasks.rs 44-49), EventEmitter::initialize
\* (events.rs 144-156), Rpc::initialize (rpc/mod.rs 255-262), and a routine
\* that calls init_service for its dependency before it takes it.
Script(ty) ==
    CASE ty = "TaskManager" -> <<[op |-> "new", ty |-> ty]>>
      [] ty = "EventEmitter" -> <<[op |-> "get", ty |-> "TaskManager"],
                                  [op |-> "new", ty |-> ty],
                                  [op |-> "add", ty |-> "EventEmitterGate"]>>
      [] ty = "Rpc" -> <<[op |-> "new", ty |-> ty],
                         [op |-> "add", ty |-> "RpcGate"]>>
      [] ty = "Feature" -> <<[op |-> "init", ty |-> "TaskManager"],
                             [op |-> "get", ty |-> "TaskManager"],
                             [op |-> "new", ty |-> ty]>>

\* The initialize routines an init_service of the type enters, and the
\* instances it creates.
FramesOf(ty) == IF ty = "Feature" THEN 2 ELSE 1

InstancesOf(ty) == IF ty = "TaskManager" THEN 1 ELSE 2

\* The guards init_service holds while S::initialize runs.
InitServiceGuards_locked(t) == {t}

\* init_service, lines 62-64: no guard is taken before S::initialize(self).
InitServiceGuards(t) == {}

\* RpcGate::call_raw / EventEmitterGate::add_raw_observer: the gate forwards
\* to the instance whose Arc it was built with.
GateTarget(g) == instMeta[g].wraps

Frame(fid, ty) ==
    [fid |-> fid, ty |-> ty, script |-> Script(ty), inst |-> 0,
     phase |-> "body"]

Top(t) == svcStack[t][Len(svcStack[t])]

\* Thread t is inside an initialize routine, and not inside a registration.
InInitialize(t) ==
    svcStack[t] /= << >> /\ svcPc[t] \in {"idle", "in_initialize"}

OpenFrames(t) == {svcStack[t][i].fid : i \in 1..Len(svcStack[t])}

SetTop(t, f) == [svcStack EXCEPT ![t][Len(svcStack[t])] = f]

\* Context::init_service is called: S::initialize(self) is entered.
CtxInitService(t, ty) ==
    /\ svcPc[t] = "idle"
    /\ svcStack[t] = << >>
    /\ nops + FramesOf(ty) <= MaxCtxOps
    /\ Len(instType) + InstancesOf(ty) <= MaxCtxInst
    /\ InitServiceGuards(t) /= {} => svcWriter = {}
    /\ svcWriter' = svcWriter \cup InitServiceGuards(t)
    /\ svcStack' = [svcStack EXCEPT ![t] = <<Frame(nops + 1, ty)>>]
    /\ svcPc' = [svcPc EXCEPT ![t] = "in_initialize"]
    /\ nops' = nops + 1
    /\ UNCHANGED <<services, services_order, instType, orderReaders, svcArg,
                   hooks, svcRet, handles, instMeta>>
    /\ UNCHANGED <<rpcVars, evVars, ctxOthers>>

\* initialize calls context.init_service::<D>(): D::initialize is entered.
CtxNestedInit(t) ==
    /\ InInitialize(t)
    /\ Top(t).phase = "body" /\ Top(t).script /= << >>
    /\ Head(Top(t).script).op = "init"
    /\ InitServiceGuards(t) /= {} => svcWriter = {}
    /\ svcWriter' = svcWriter \cup InitServiceGuards(t)
    /\ svcStack' = [svcStack EXCEPT ![t] =
          Append(SetTop(t, [Top(t) EXCEPT !.script = Tail(@)])[t],
                 Frame(nops + 1, Head(Top(t).script).ty))]
    /\ nops' = nops + 1
    /\ UNCHANGED <<services, services_order, instType, orderReaders, svcPc,
                   svcArg, hooks, svcRet, handles, instMeta>>
    /\ UNCHANGED <<rpcVars, evVars, ctxOthers>>

\* initialize calls context.get_service::<D>(): the handle, or the panic of
\* unwrap() that unwinds out of init_service.
CtxGet(t) ==
    /\ InInitialize(t)
    /\ Top(t).phase = "body" /\ Top(t).script /= << >>
    /\ Head(Top(t).script).op = "get"
    /\ svcWriter = {}
    /\ LET d == Head(Top(t).script).ty
           r == GetServiceResult(services, d) IN
       IF r.ok
       THEN /\ handles' = handles \cup {[ty |-> d, inst |-> r.inst]}
            /\ svcStack' = SetTop(t, [Top(t) EXCEPT !.script = Tail(@)])
            /\ UNCHANGED <<svcRet, svcPc>>
       ELSE /\ svcStack' = [svcStack EXCEPT ![t] = << >>]
            /\ svcRet' = [svcRet EXCEPT ![t] =
                  [NoRet EXCEPT !.op = "init_service",
                                !.ty = svcStack[t][1].ty, !.ok = FALSE]]
            /\ svcPc' = [svcPc EXCEPT ![t] = "idle"]
            /\ UNCHANGED handles
    /\ UNCHANGED <<services, services_order, instType, svcWriter, orderReaders,
                   svcArg, hooks, nops, instMeta>>
    /\ UNCHANGED <<rpcVars, evVars, ctxOthers>>

\* initialize makes its instance: Arc::new(Self { .. }).
CtxNew(t) ==
    /\ InInitialize(t)
    /\ Top(t).phase = "body" /\ Top(t).script /= << >>
    /\ Head(Top(t).script).op = "new"
    /\ instType' = Append(instType, Top(t).ty)
    /\ instMeta' = Append(instMeta,
                      [fid |-> Top(t).fid, within |-> {}, wraps |-> 0])
    /\ svcStack' = SetTop(t, [Top(t) EXCEPT !.script = Tail(@),
                                            !.inst = Len(instType) + 1])
    /\ UNCHANGED <<services, services_order, svcWriter, orderReaders, svcPc,
                   svcArg, hooks, svcRet, handles, nops>>
    /\ UNCHANGED <<rpcVars, evVars, ctxOthers>>

\* initialize builds the gate around a clone of its instance's Arc and calls
\* context.add_service(gate): add_service_internal is entered.
CtxAdd(t) ==
    /\ InInitialize(t)
    /\ Top(t).phase = "body" /\ Top(t).script /= << >>
    /\ Head(Top(t).script).op = "add"
    /\ instType' = Append(instType, Head(Top(t).script).ty)
    /\ instMeta' = Append(instMeta,
                      [fid |-> 0, within |-> OpenFrames(t),
                       wraps |-> Top(t).inst])
    /\ svcArg' = [svcArg EXCEPT ![t] =
                    [NoArg EXCEPT !.op = "add_service",
                                  !.ty = Head(Top(t).script).ty,
                                  !.inst = Len(instType) + 1]]
    /\ svcPc' = [svcPc EXCEPT ![t] = "add_internal"]
    /\ svcStack' = SetTop(t, [Top(t) EXCEPT !.script = Tail(@)])
    /\ UNCHANGED <<services, services_order, svcWriter, orderReaders, hooks,
                   svcRet, handles, nops>>
    /\ UNCHANGED <<rpcVars, evVars, ctxOthers>>

\* initialize returns its instance and init_service, line 65, calls
\* add_service_internal with it.
CtxRegister(t) ==
    /\ InInitialize(t)
    /\ Top(t).phase = "body" /\ Top(t).script = << >>
    /\ svcWriter' = svcWriter \ InitServiceGuards(t)
    /\ instMeta' = [instMeta EXCEPT ![Top(t).inst].within =
                       OpenFrames(t) \ {Top(t).fid}]
    /\ svcArg' = [svcArg EXCEPT ![t] =
                    [NoArg EXCEPT !.op = "init_service", !.ty = Top(t).ty,
                                  !.inst = Top(t).inst]]
    /\ svcPc' = [svcPc EXCEPT ![t] = "add_internal"]
    /\ svcStack' = SetTop(t, [Top(t) EXCEPT !.phase = "registering"])
    /\ UNCHANGED <<services, services_order, instType, orderReaders, hooks,
                   svcRet, handles, nops>>
    /\ UNCHANGED <<rpcVars, evVars, ctxOthers>>

\* init_service returns, to the initialize routine that called it or to the
\* caller outside.
CtxReturn(t) ==
    /\ InInitialize(t)
    /\ Top(t).phase = "registering"
    /\ svcStack' = [svcStack EXCEPT ![t] = SubSeq(@, 1, Len(@) - 1)]
    /\ svcPc' = [svcPc EXCEPT ![t] =
                    IF Len(svcStack[t]) > 1 THEN "in_initialize" ELSE "idle"]
    /\ UNCHANGED <<services, services_order, instType, svcWriter, orderReaders,
                   svcArg, hooks, svcRet, handles, nops, instMeta>>
    /\ UNCHANGED <<rpcVars, evVars, ctxOthers>>

\* The steps of thread t inside init_service.
CtxStep(t) ==
    \/ CtxNestedInit(t)
    \/ CtxGet(t)
    \/ CtxNew(t)
    \/ CtxAdd(t)
    \/ CtxRegister(t)
    \/ CtxReturn(t)
    \/ AddInternalInsert(t)
    \/ AddInternalPush(t)

NextCtx ==
    \/ \E t \in Threads, ty \in CtxTypes : CtxInitService(t, ty)
    \/ \E t \in Threads : CtxNestedInit(t)
    \/ \E t \in Threads : CtxGet(t)
    \/ \E t \in Threads : CtxNew(t)
    \/ \E t \in Threads : CtxAdd(t)
    \/ \E t \in Threads : CtxRegister(t)
    \/ \E t \in Threads : CtxReturn(t)
    \/ \E t \in Threads : AddInternalInsert(t)
    \/ \E t \in Threads : AddInternalPush(t)

SpecCtx == InitService /\ [][NextCtx]_vars

\* Every thread inside init_service keeps taking its steps.
SpecCtxFair == SpecCtx /\ \A t \in Threads : WF_vars(CtxStep(t))

(***************************************************************************)
(*                 PROPERTIES OF THE INITIALIZE ROUTINES                   *)
(***************************************************************************)
\* The place of instance i in the ordered sequence (0 when it is not there).
PlaceOf(i) ==
    IF i \in Range(services_order)
    THEN CHOOSE p \in 1..Len(services_order) : services_order[p] = i
    ELSE 0

\* The threads inside init_service, in an initialize routine or in one of
\* its registrations.
Initializing == {t \in Threads : svcStack[t] /= << >>}

\* While S::initialize runs its thread holds no guard of the container, and
\* whenever a thread is inside init_service some thread inside it can step.
InitializeHoldsNoLock ==
    /\ \A t \in Threads :
          InInitialize(t) => t \notin svcWriter /\ t \notin orderReaders
    /\ Initializing /= {} => ENABLED (\E u \in Initializing : CtxStep(u))

\* The instance of an initialize routine that has not returned is in neither
\* the lookup map nor the ordered sequence.
RegisteredAfterInitialize ==
    \A t \in Threads : \A k \in 1..Len(svcStack[t]) :
        LET f == svcStack[t][k] IN
        (f.phase = "body" /\ f.inst /= 0) =>
            /\ f.inst \notin Range(Registered)
            /\ \A ty \in DOMAIN services : services[ty] /= f.inst

\* Once S is in the ordered sequence, every instance registered within S's
\* initialize is there too, before S.
NestedPrecede ==
    \A s \in Range(services_order) : \A i \in 1..Len(instMeta) :
        (instMeta[s].fid /= 0 /\ instMeta[s].fid \in instMeta[i].within) =>
            /\ i \in Range(services_order)
            /\ PlaceOf(i) < PlaceOf(s)

\* C29: init_service holds no container lock while S::initialize runs, so an
\* initialize that calls get_service, init_service and add_service on the
\* same Context always gets out of init_service; S is registered only after
\* its initialize has returned, and everything registered during it precedes
\* S in the ordered sequence.
InitializeReentrant ==
    /\ [](InitializeHoldsNoLock /\ RegisteredAfterInitialize /\ NestedPrecede)
    /\ \A t \in Threads : (svcStack[t] /= << >>) ~> (svcStack[t] = << >>)

InitializeReentrantWitness ==
    \E s, i, g \in Range(services_order) :
        /\ instType[s] = "Feature" /\ instType[i] = "TaskManager"
        /\ instMeta[s].fid \in instMeta[i].within
        /\ instType[g] = "RpcGate"
        /\ instMeta[GateTarget(g)].fid \in instMeta[g].within
        /\ GateTarget(g) \in Range(services_order)
        /\ Initializing = {}

\* The services that register a gate, with the type of their gate.
Gated == {[svc |-> "Rpc", gate |-> "RpcGate"],
          [svc |-> "EventEmitter", gate |-> "EventEmitterGate"]}

\* An init_service of the service has returned normally.
Initialized(ty) ==
    \E i \in Range(services_order) : instType[i] = ty

\* Every gate is its own entry of the container, before the service it wraps
\* in the ordered sequence; and once init_service of the service has
\* returned, get_service of the gate type succeeds.
GateRegistered ==
    /\ \A s \in Range(services_order) : \A g \in 1..Len(instMeta) :
          (instMeta[g].wraps = s) =>
              /\ g \in Range(services_order)
              /\ g /= s
              /\ PlaceOf(g) < PlaceOf(s)
    /\ \A x \in Gated : Initialized(x.svc) =>
          /\ GetServiceResult(services, x.gate).ok
          /\ instType[GetServiceResult(services, x.gate).inst] = x.gate
          /\ GetServiceResult(services, x.svc).ok

\* What goes through the gate get_service returns reaches the instance
\* get_service returns for the service.
GateSameInstance(x) ==
    GateTarget(GetServiceResult(services, x.gate).inst) =
        GetServiceResult(services, x.svc).inst

\* C30 as stated: after init_service of the dispatcher or the bus, the gate
\* is a container entry of its own that precedes the service in the ordered
\* sequence, and what is done through the gate get_service returns acts on
\* the instance get_service returns for the service.
GateFacadeAlways ==
    /\ GateRegistered
    /\ \A x \in Gated : Initialized(x.svc) => GateSameInstance(x)

\* C30, amended: the same, the last part while the service has been
\* initialized once (one instance of it has been made).
GateFacade ==
    /\ GateRegistered
    /\ \A x \in Gated :
          (Initialized(x.svc)
             /\ Cardinality({i \in 1..Len(instType) : instType[i] = x.svc}) = 1)
          => GateSameInstance(x)

GateFacadeWitness ==
    /\ \A x \in Gated : Initialized(x.svc) /\ GateSameInstance(x)
    /\ Initializing = {}

(***************************************************************************)
(*                            THE TASK MANAGER                             *)
(***************************************************************************)
\* TaskContext::new (tasks.rs 14-18): the flag starts false. The model keeps
\* with the context the path it was made on and whether its job has exited.
TaskContextNew(tracked) ==
    [is_interrupted |-> FALSE, tracked |-> tracked, exited |-> FALSE]

\* The contexts the model can make.
TaskIds == 1..MaxTaskOps

\* The threads inside stop(), holding tasks.read().
TasksReaders == {t \in Threads : stopPc[t] = "iter"}

\* A pool whose workers also run the tracked jobs.
PoolBusy_shared == {c \in 1..Len(taskCtx) : ~taskCtx[c].exited}

\* The pool's workers that are running an instant job.
PoolBusy == {c \in 1..Len(taskCtx) : ~taskCtx[c].tracked /\ ~taskCtx[c].exited}

\* A manager that remembers it was stopped: the context of a run after a
\* stop is made interrupted.
Run_stopped(t) ==
    /\ stopPc[t] = "idle"
    /\ tkOps < MaxTaskOps
    /\ TasksReaders = {}
    /\ taskCtx' = Append(taskCtx, [TaskContextNew(TRUE) EXCEPT
                                      !.is_interrupted = (signalled /= {})])
    /\ tasks' = Append(tasks, Len(taskCtx) + 1)
    /\ tkOps' = tkOps + 1
    /\ UNCHANGED <<poolQueue, stopPc, stopIdx, stopSnap, signalled>>
    /\ UNCHANGED <<svcVars, rpcVars, evVars, tkOthers>>

\* TaskManager::run (lines 62-73): makes the context, takes tasks.write()
\* (which waits while a stop() iterates), pushes a clone of the Arc and
\* spawns a thread that runs the job with the context.
Run(t) ==
    /\ stopPc[t] = "idle"
    /\ tkOps < MaxTaskOps
    /\ TasksReaders = {}
    /\ taskCtx' = Append(taskCtx, TaskContextNew(TRUE))
    /\ tasks' = Append(tasks, Len(taskCtx) + 1)
    /\ tkOps' = tkOps + 1
    /\ UNCHANGED <<poolQueue, stopPc, stopIdx, stopSnap, signalled>>
    /\ UNCHANGED <<svcVars, rpcVars, evVars, tkOthers>>

\* A tracked job exits, having seen its flag or not: its thread ends, and
\* nothing in the manager follows from it.
TrackedExit_prune(c) ==
    /\ c \in 1..Len(taskCtx)
    /\ taskCtx[c].tracked /\ ~taskCtx[c].exited
    /\ TasksReaders = {}
    /\ taskCtx' = [taskCtx EXCEPT ![c].exited = TRUE]
    /\ tasks' = SelectSeq(tasks, LAMBDA x : x /= c)
    /\ UNCHANGED <<poolQueue, stopPc, stopIdx, stopSnap, signalled, tkOps>>
    /\ UNCHANGED <<svcVars, rpcVars, evVars, tkOthers>>

TrackedExit(c) ==
    /\ c \in 1..Len(taskCtx)
    /\ taskCtx[c].tracked /\ ~taskCtx[c].exited
    /\ taskCtx' = [taskCtx EXCEPT ![c].exited = TRUE]
    /\ UNCHANGED <<tasks, poolQueue, stopPc, stopIdx, stopSnap, signalled, tkOps>>
    /\ UNCHANGED <<svcVars, rpcVars, evVars, tkOthers>>

\* TaskManager::run_instant_task (lines 53-60): pool.lock().execute(closure);
\* execute queues the closure and returns.
RunInstantTask(t) ==
    /\ stopPc[t] = "idle"
    /\ tkOps < MaxTaskOps
    /\ poolQueue' = poolQueue + 1
    /\ tkOps' = tkOps + 1
    /\ UNCHANGED <<tasks, taskCtx, stopPc, stopIdx, stopSnap, signalled>>
    /\ UNCHANGED <<svcVars, rpcVars, evVars, tkOthers>>

\* A free worker of the pool takes the closure and the closure makes the
\* context that is also put in the registry.
InstantStart_registered ==
    /\ poolQueue > 0
    /\ Cardinality(PoolBusy) < PoolSize
    /\ TasksReaders = {}
    /\ poolQueue' = poolQueue - 1
    /\ taskCtx' = Append(taskCtx, TaskContextNew(FALSE))
    /\ tasks' = Append(tasks, Len(taskCtx) + 1)
    /\ UNCHANGED <<stopPc, stopIdx, stopSnap, signalled, tkOps>>
    /\ UNCHANGED <<svcVars, rpcVars, evVars, tkOthers>>

\* A free worker of the pool takes the closure: lines 57-58, the closure
\* makes its own TaskContext, known to nothing else, and runs the job with it.
InstantStart ==
    /\ poolQueue > 0
    /\ Cardinality(PoolBusy) < PoolSize
    /\ poolQueue' = poolQueue - 1
    /\ taskCtx' = Append(taskCtx, TaskContextNew(FALSE))
    /\ UNCHANGED <<tasks, stopPc, stopIdx, stopSnap, signalled, tkOps>>
    /\ UNCHANGED <<svcVars, rpcVars, evVars, tkOthers>>

\* The instant job returns; its context is dropped with the closure's frame.
InstantEnd(c) ==
    /\ c \in PoolBusy
    /\ taskCtx' = [taskCtx EXCEPT ![c].exited = TRUE]
    /\ UNCHANGED <<tasks, poolQueue, stopPc, stopIdx, stopSnap, signalled, tkOps>>
    /\ UNCHANGED <<svcVars, rpcVars, evVars, tkOthers>>

\* ServiceApi::stop for the task manager, line 36: tasks.read(). run holds
\* the write guard for the push alone, so the read guard is there whenever
\* a thread asks.
StopBegin(t) ==
    /\ stopPc[t] = "idle"
    /\ tkOps < MaxTaskOps
    /\ stopPc' = [stopPc EXCEPT ![t] = "iter"]
    /\ stopIdx' = [stopIdx EXCEPT ![t] = 1]
    /\ stopSnap' = [stopSnap EXCEPT ![t] = tasks]
    /\ tkOps' = tkOps + 1
    /\ UNCHANGED <<tasks, taskCtx, poolQueue, signalled>>
    /\ UNCHANGED <<svcVars, rpcVars, evVars, tkOthers>>

\* A stop that signals only the tasks whose job is still running.
StopSet_running(t) ==
    /\ stopPc[t] = "iter"
    /\ stopIdx[t] <= Len(tasks)
    /\ taskCtx' = [taskCtx EXCEPT ![tasks[stopIdx[t]]].is_interrupted =
                       @ \/ ~taskCtx[tasks[stopIdx[t]]].exited]
    /\ stopIdx' = [stopIdx EXCEPT ![t] = @ + 1]
    /\ UNCHANGED <<tasks, poolQueue, stopPc, stopSnap, signalled, tkOps>>
    /\ UNCHANGED <<svcVars, rpcVars, evVars, tkOthers>>

\* stop, lines 37-39: one turn of the loop, task.stop() stores true in the
\* flag of the next context of the registry.
StopSet(t) ==
    /\ stopPc[t] = "iter"
    /\ stopIdx[t] <= Len(tasks)
    /\ taskCtx' = [taskCtx EXCEPT ![tasks[stopIdx[t]]].is_interrupted = TRUE]
    /\ stopIdx' = [stopIdx EXCEPT ![t] = @ + 1]
    /\ UNCHANGED <<tasks, poolQueue, stopPc, stopSnap, signalled, tkOps>>
    /\ UNCHANGED <<svcVars, rpcVars, evVars, tkOthers>>

\* stop, line 40: the loop is over, the guard is dropped and stop returns.
StopEnd(t) ==
    /\ stopPc[t] = "iter"
    /\ stopIdx[t] > Len(tasks)
    /\ stopPc' = [stopPc EXCEPT ![t] = "idle"]
    /\ stopIdx' = [stopIdx EXCEPT ![t] = 0]
    /\ stopSnap' = [stopSnap EXCEPT ![t] = << >>]
    /\ signalled' = signalled \cup Range(stopSnap[t])
    /\ UNCHANGED <<tasks, taskCtx, poolQueue, tkOps>>
    /\ UNCHANGED <<svcVars, rpcVars, evVars, tkOthers>>

\* The steps of a thread inside stop().
StopStep(t) == StopSet(t) \/ StopEnd(t)

NextTasks ==
    \/ \E t \in Threads : Run(t)
    \/ \E t \in Threads : RunInstantTask(t)
    \/ \E t \in Threads : StopBegin(t)
    \/ \E t \in Threads : StopSet(t)
    \/ \E t \in Threads : StopEnd(t)
    \/ \E c \in TaskIds : TrackedExit(c)
    \/ \E c \in TaskIds : InstantEnd(c)
    \/ InstantStart

SpecTasks == InitService /\ [][NextTasks]_vars

\* The pool's workers keep running and instant jobs end; nothing is assumed
\* of the tracked jobs.
SpecTasksPoolFair ==
    /\ SpecTasks
    /\ WF_vars(InstantStart)
    /\ WF_vars(\E c \in TaskIds : InstantEnd(c))

\* The threads inside stop() keep running; nothing is assumed of the jobs.
SpecTasksFair == SpecTasks /\ \A t \in Threads : WF_vars(StopStep(t))

(***************************************************************************)
(*                    PROPERTIES OF THE TASK MANAGER                       *)
(***************************************************************************)
\* The contexts of the tracked path and of the instant path.
Tracked == {c \in 1..Len(taskCtx) : taskCtx[c].tracked}

Instant == {c \in 1..Len(taskCtx) : ~taskCtx[c].tracked}

\* A step of some thread's stop().
InStopStep == \E t \in Threads : stopIdx'[t] /= stopIdx[t]

\* C21: after stop() has returned, the flag of every tracked job that was
\* run before that stop reads true, whether its job has exited or not; a
\* stop changes nothing but flags, a thread inside stop() can always take
\* its next step whatever the jobs do, and it returns although no job is
\* ever required to exit.
StopSignalsTracked ==
    /\ [](\A c \in signalled : c \in Tracked /\ taskCtx[c].is_interrupted)
    /\ [](\A t \in Threads : stopPc[t] = "iter" => ENABLED StopStep(t))
    /\ [][InStopStep =>
            /\ tasks' = tasks
            /\ poolQueue' = poolQueue
            /\ Len(taskCtx') = Len(taskCtx)
            /\ \A c \in 1..Len(taskCtx) :
                  /\ taskCtx'[c].exited = taskCtx[c].exited
                  /\ taskCtx'[c].tracked = taskCtx[c].tracked]_vars
    /\ \A t \in Threads : (stopPc[t] = "iter") ~> (stopPc[t] = "idle")

StopSignalsTrackedWitness ==
    /\ \E c, d \in signalled : taskCtx[c].exited /\ ~taskCtx[d].exited
    /\ \A t \in Threads : stopPc[t] = "idle"

\* C22: the context of an instant job is its own (in no registry, made for
\* that job alone) and reads not-interrupted while the job runs and after,
\* whatever stop() does and whenever the job runs.
InstantNeverInterrupted ==
    \A c \in Instant :
        /\ ~taskCtx[c].is_interrupted
        /\ c \notin Range(tasks)
        /\ \A t \in Threads : c \notin Range(stopSnap[t])

InstantNeverInterruptedWitness ==
    /\ signalled /= {}
    /\ \E c \in Instant : ~taskCtx[c].exited
    /\ \E c \in Instant : taskCtx[c].exited
    /\ \E t \in Threads : stopPc[t] = "iter" /\ stopIdx[t] > 1

\* C23: the registry holds every tracked context once, in the order of the
\* runs; a step only appends to it (one record per run) and never removes,
\* also when a job exits or stop() runs; a flag starts false, goes from false
\* to true only in a step of stop() on that record, and never goes back.
RegistryGrowsFlagsMonotone ==
    /\ [](/\ Range(tasks) = Tracked
          /\ \A i, j \in 1..Len(tasks) : i < j => tasks[i] < tasks[j])
    /\ [][/\ Len(tasks') >= Len(tasks)
          /\ SubSeq(tasks', 1, Len(tasks)) = tasks
          /\ Len(taskCtx') >= Len(taskCtx)
          /\ \A c \in 1..Len(taskCtx) :
                /\ taskCtx[c].is_interrupted => taskCtx'[c].is_interrupted
                /\ (~taskCtx[c].is_interrupted /\ taskCtx'[c].is_interrupted)
                      => \E t \in Threads :
                            /\ stopPc[t] = "iter"
                            /\ stopIdx[t] <= Len(tasks)
                            /\ tasks[stopIdx[t]] = c
                            /\ stopIdx'[t] = stopIdx[t] + 1
          /\ \A c \in (Len(taskCtx) + 1)..Len(taskCtx') :
                /\ ~taskCtx'[c].is_interrupted
                /\ taskCtx'[c].tracked => tasks' = Append(tasks, c)]_vars

RegistryGrowsFlagsMonotoneWitness ==
    \E c, d \in Range(tasks) :
        /\ taskCtx[c].exited /\ taskCtx[c].is_interrupted
        /\ c \in signalled
        /\ d \notin signalled /\ ~taskCtx[d].is_interrupted /\ c < d

(***************************************************************************)
(*               THE FILE TABLE AND THE WEB GATE'S FILE ROUTE              *)
(***************************************************************************)
\* Strings are sequences of characters.
FileKeys == {<<"a">>, <<"b">>}

FilePaths == {<<"f">>, <<"g">>, <<"d", "/", "f">>, <<"x">>}

\* The tails of the route /get_file/<tail>: "<key>/<path>", and one without
\* a separator.
FileTails == {k \o <<"/">> \o q : k \in FileKeys, q \in FilePaths} \cup {<<"a">>}

\* The handlers a feature registers: Fn(&str) -> Result<Vec<u8>, io::Error>.
\* "dir" reads under a directory that holds f (two bytes), g (empty) and d/f;
\* "denied" fails for every path.
FileHandlers == {"dir", "denied"}

OkBytes(b) == [ok |-> TRUE, bytes |-> b, err |-> "none"]

IoError(e) == [ok |-> FALSE, bytes |-> << >>, err |-> e]

FileHandler(h, path) ==
    IF h = "denied" THEN IoError("PermissionDenied")
    ELSE CASE path = <<"f">> -> OkBytes(<<1, 2>>)
           [] path = <<"g">> -> OkBytes(<< >>)
           [] path = <<"d", "/", "f">> -> OkBytes(<<3>>)
           [] OTHER -> IoError("NotFound")

\* A get_file that turns the handler's failure into no bytes.
GetFileResult_swallow(table, key, path) ==
    IF table[key] /= "none"
    THEN OkBytes(FileHandler(table[key], path).bytes)
    ELSE OkBytes(<< >>)

\* Rpc::get_file (lines 218-226): the handler's result for a key of the
\* table, Ok(Vec::new()) for any other key.
GetFileResult(table, key, path) ==
    IF table[key] /= "none"
    THEN FileHandler(table[key], path)
    ELSE OkBytes(<< >>)

\* The place of the first "/" of a string, 0 if it has none.
FirstSlash(str) ==
    IF \E i \in 1..Len(str) : str[i] = "/"
    THEN CHOOSE i \in 1..Len(str) :
            str[i] = "/" /\ \A j \in 1..(i - 1) : str[j] /= "/"
    ELSE 0

\* tail.splitn(2, "/") (rpc_web_gate.rs 151): at most two pieces, cut at the
\* first separator.
SplitN2(str) ==
    IF FirstSlash(str) = 0 THEN <<str>>
    ELSE <<SubSeq(str, 1, FirstSlash(str) - 1),
           SubSeq(str, FirstSlash(str) + 1, Len(str))>>

\* handle_get_file (rpc_web_gate.rs 150-167): key_value[1] is out of bounds
\* for a tail without a separator, and the request's task panics; Ok is
\* answered with status 200 and the bytes, Err with the not_found rejection.
HandleGetFileReply(table, tail) ==
    IF Len(SplitN2(tail)) < 2
    THEN [status |-> "panic", body |-> << >>]
    ELSE IF GetFileResult(table, SplitN2(tail)[1], SplitN2(tail)[2]).ok
         THEN [status |-> "200",
               body |-> GetFileResult(table, SplitN2(tail)[1],
                                      SplitN2(tail)[2]).bytes]
         ELSE [status |-> "404", body |-> << >>]

\* Rpc::add_get_file_handler (lines 203-216): insert under the write guard.
AddGetFileHandler(key, h) ==
    /\ fileOps < MaxFileOps
    /\ get_file_calls' = [get_file_calls EXCEPT ![key] = h]
    /\ fileOps' = fileOps + 1
    /\ UNCHANGED fileLog
    /\ UNCHANGED <<svcVars, rpcVars, evVars, gfOthers>>

\* RpcGate::get_file -> Rpc::get_file, called by a transport adapter.
GetFile(key, path) ==
    /\ fileOps < MaxFileOps
    /\ fileLog' = Append(fileLog,
                    [via |-> "gate", key |-> key, path |-> path,
                     tail |-> << >>, table |-> get_file_calls,
                     res |-> GetFileResult(get_file_calls, key, path),
                     reply |-> [status |-> "none", body |-> << >>]])
    /\ fileOps' = fileOps + 1
    /\ UNCHANGED get_file_calls
    /\ UNCHANGED <<svcVars, rpcVars, evVars, gfOthers>>

\* A GET /get_file/<tail> served by handle_get_file.
HandleGetFile(tail) ==
    /\ fileOps < MaxFileOps
    /\ fileLog' = Append(fileLog,
                    [via |-> "web", key |-> << >>, path |-> << >>,
                     tail |-> tail, table |-> get_file_calls,
                     res |-> IF Len(SplitN2(tail)) < 2 THEN IoError("none")
                             ELSE GetFileResult(get_file_calls,
                                     SplitN2(tail)[1], SplitN2(tail)[2]),
                     reply |-> HandleGetFileReply(get_file_calls, tail)])
    /\ fileOps' = fileOps + 1
    /\ UNCHANGED get_file_calls
    /\ UNCHANGED <<svcVars, rpcVars, evVars, gfOthers>>

NextFiles ==
    \/ \E k \in FileKeys, h \in FileHandlers : AddGetFileHandler(k, h)
    \/ \E k \in FileKeys, q \in FilePaths : GetFile(k, q)
    \/ \E tl \in FileTails : HandleGetFile(tl)

SpecFiles == InitService /\ [][NextFiles]_vars

\* The requests of the log that came through the gate, and those of the web
\* route with the key and the path the tail was written from.
GateRequests == {i \in 1..Len(fileLog) : fileLog[i].via = "gate"}

WebRequests(k, q) ==
    {i \in 1..Len(fileLog) :
        fileLog[i].via = "web" /\ fileLog[i].tail = k \o <<"/">> \o q}

\* C24: get_file for a key without a handler returns Ok with no bytes; for
\* a key with a handler it returns what that handler returns for the path,
\* so a failure of the handler comes back as a failure, never as empty
\* bytes; the web route calls the handler of the key before the first "/"
\* with the rest of the tail, answers its bytes, and answers not-found for
\* a failure.
GetFileContract ==
    /\ \A i \in GateRequests :
          LET r == fileLog[i] IN
          /\ r.table[r.key] = "none" => r.res = OkBytes(<< >>)
          /\ r.table[r.key] /= "none" => r.res = FileHandler(r.table[r.key], r.path)
          /\ (r.table[r.key] /= "none" /\ ~FileHandler(r.table[r.key], r.path).ok)
                => ~r.res.ok
    /\ \A k \in FileKeys, q \in FilePaths : \A i \in WebRequests(k, q) :
          LET r == fileLog[i] IN
          /\ r.table[k] = "none" => r.reply = [status |-> "200", body |-> << >>]
          /\ (r.table[k] /= "none" /\ FileHandler(r.table[k], q).ok)
                => r.reply = [status |-> "200",
                              body |-> FileHandler(r.table[k], q).bytes]
          /\ (r.table[k] /= "none" /\ ~FileHandler(r.table[k], q).ok)
                => r.reply.status = "404"

GetFileContractWitness ==
    /\ \E i \in GateRequests :
          /\ fileLog[i].table[fileLog[i].key] = "none"
          /\ fileLog[i].res = OkBytes(<< >>)
    /\ \E i \in WebRequests(<<"a">>, <<"x">>) :
          /\ fileLog[i].table[<<"a">>] = "dir"
          /\ ~fileLog[i].res.ok
          /\ fileLog[i].reply.status = "404"

(***************************************************************************)
(*                       THE COMMAND LINE ADAPTERS                         *)
(***************************************************************************)
\* The commands registered with the command manager: name -> arguments ->
\* ArgType. Names are strings, strings are sequences of characters.
CmdList ==
    (<<"s">> :> (<<"n">> :> "U64" @@ <<"b">> :> "BOOL"))
    @@ (<<"e">> :> (<<"t">> :> "STRING"))

\* CmdManagerCliAdapter::run, lines 28-34: the loop adds the command q.
CoreCmdList == CmdList @@ (<<"q">> :> << >>)

\* The lines an operator types, each with what it is: a right call, a call
\* with an argument of the wrong type, a call with an argument missing, an
\* unknown command, the quit command.
CliLines ==
    << [kind |-> "valid",
        text |-> <<"s", " ", "n", ":", "1", " ", "b", ":", "y">>],
       [kind |-> "valid",
        text |-> <<"s", " ", "b", ":", "n", " ", " ", "n", ":", "1", "2", "\n">>],
       [kind |-> "valid",
        text |-> <<"e", " ", "t", ":", "'", "a", " ", "b", "'">>],
       [kind |-> "mistyped",
        text |-> <<"s", " ", "n", ":", "x", " ", "b", ":", "y">>],
       [kind |-> "mistyped",
        text |-> <<"s", " ", "n", ":", "1", " ", "b", ":", "t", "\n">>],
       [kind |-> "missing",
        text |-> <<"s", " ", "n", ":", "1">>],
       [kind |-> "missing",
        text |-> <<"e">>],
       [kind |-> "unknown",
        text |-> <<"z", " ", "n", ":", "1">>],
       [kind |-> "quit",
        text |-> <<"q", "\n">>] >>

LineIds == 1..Len(CliLines)

\* The orders in which a HashMap of argument descriptions can be iterated.
ArgOrders ==
    {o \in [1..3 -> {<<"n">>, <<"b">>, <<"t">>}] :
        \A i, j \in 1..3 : i /= j => o[i] /= o[j]}

\* input_line.replace("\n", "")
StripNewlines(str) == SelectSeq(str, LAMBDA c : c /= "\n")

\* cmd_line.find(" "): the place of the first space, 0 for None.
FindSpace(str) ==
    IF \E i \in 1..Len(str) : str[i] = " "
    THEN CHOOSE i \in 1..Len(str) :
            str[i] = " " /\ \A j \in 1..(i - 1) : str[j] /= " "
    ELSE 0

\* (cmd_name, args_str) of handle, lines 33-41.
CmdName(str) ==
    IF FindSpace(str) = 0 THEN str ELSE SubSeq(str, 1, FindSpace(str) - 1)

ArgsStr(str) ==
    IF FindSpace(str) = 0 THEN << >>
    ELSE SubSeq(str, FindSpace(str) + 1, Len(str))

\* One character of parse_raw's loop (lines 68-119): ps is the parser, with
\* its state, the two character vectors and the map.
ParseRawChar(ps, c) ==
    CASE ps.state = "WaitForArgNameStart" ->
            IF c /= " "
            THEN [ps EXCEPT !.name = Append(@, c), !.state = "ReadingArgName"]
            ELSE ps
      [] ps.state = "ReadingArgName" ->
            IF c = ":"
            THEN [ps EXCEPT !.state = "WaitForArgValue"]
            ELSE [ps EXCEPT !.name = Append(@, c)]
      [] ps.state = "WaitForArgValue" ->
            IF c = "'" THEN [ps EXCEPT !.state = "ReadingStringValue"]
            ELSE IF c = " " THEN ps
            ELSE [ps EXCEPT !.value = Append(@, c),
                            !.state = "ReadingNonStringValue"]
      [] ps.state = "ReadingStringValue" ->
            IF c = "'"
            THEN [state |-> "WaitForArgNameStart", name |-> << >>,
                  value |-> << >>,
                  result |-> MapInsert(ps.result, ps.name, ps.value)]
            ELSE [ps EXCEPT !.value = Append(@, c)]
      [] ps.state = "ReadingNonStringValue" ->
            IF c = " "
            THEN [state |-> "WaitForArgNameStart", name |-> << >>,
                  value |-> << >>,
                  result |-> MapInsert(ps.result, ps.name, ps.value)]
            ELSE [ps EXCEPT !.value = Append(@, c)]

RECURSIVE ParseRawLoop(_, _)
ParseRawLoop(ps, str) ==
    IF str = << >> THEN ps
    ELSE ParseRawLoop(ParseRawChar(ps, Head(str)), Tail(str))

\* parse_raw (lines 61-130), the same text in both adapters: the loop, then
\* the value that was being read when the line ended.
ParseRaw(str) ==
    LET ps == ParseRawLoop([state |-> "WaitForArgNameStart", name |-> << >>,
                            value |-> << >>, result |-> << >>], str) IN
    IF ps.state = "ReadingNonStringValue"
    THEN MapInsert(ps.result, ps.name, ps.value)
    ELSE ps.result

Digits == {"0", "1", "2", "3", "4", "5", "6", "7", "8", "9"}

DigitValue(c) ==
    CASE c = "0" -> 0 [] c = "1" -> 1 [] c = "2" -> 2 [] c = "3" -> 3
      [] c = "4" -> 4 [] c = "5" -> 5 [] c = "6" -> 6 [] c = "7" -> 7
      [] c = "8" -> 8 [] c = "9" -> 9

RECURSIVE DecimalValue(_)
DecimalValue(ds) ==
    IF ds = << >> THEN 0
    ELSE 10 * DecimalValue(SubSeq(ds, 1, Len(ds) - 1)) + DigitValue(ds[Len(ds)])

\* str.parse::<u64>(): an optional "+", then one digit or more and nothing
\* else. The values of the lines above are far below 2^64.
ParseU64(str) ==
    LET ds == IF str /= << >> /\ Head(str) = "+" THEN Tail(str) ELSE str IN
    IF ds /= << >> /\ \A i \in 1..Len(ds) : ds[i] \in Digits
    THEN [ok |-> TRUE, value |-> DecimalValue(ds)]
    ELSE [ok |-> FALSE, value |-> 0]

\* One argument of parse's loop: its value in the ArgsList, or what is wrong.
ParseArg(raw, name, type) ==
    IF name \notin DOMAIN raw THEN [ok |-> FALSE, error |-> "not found"]
    ELSE CASE type = "U64" ->
                 IF ParseU64(raw[name]).ok
                 THEN [ok |-> TRUE, value |-> ParseU64(raw[name]).value]
                 ELSE [ok |-> FALSE, error |-> "invalid int"]
           [] type = "BOOL" ->
                 IF raw[name] = <<"y">> THEN [ok |-> TRUE, value |-> TRUE]
                 ELSE IF raw[name] = <<"n">> THEN [ok |-> TRUE, value |-> FALSE]
                 ELSE [ok |-> FALSE, error |-> "invalid bool"]
           [] type = "STRING" -> [ok |-> TRUE, value |-> raw[name]]

\* The described arguments in the order the map is iterated.
ArgsInOrder(desc, order) == SelectSeq(order, LAMBDA a : a \in DOMAIN desc)

\* The first argument of the iteration that is missing or mistyped, 0 if
\* there is none.
FirstBadArg(raw, desc, order) ==
    LET as == ArgsInOrder(desc, order)
        bad == {i \in 1..Len(as) : ~ParseArg(raw, as[i], desc[as[i]]).ok} IN
    IF bad = {} THEN 0 ELSE CHOOSE i \in bad : \A j \in bad : i <= j

ArgsListOf(raw, desc) ==
    [a \in DOMAIN desc |-> ParseArg(raw, a, desc[a]).value]

\* parse of the server's adapter (cmd_manager_adapter.rs 132-173): the
\* first bad argument is logged and the result is None.
ParseOption(str, desc, order) ==
    LET raw == ParseRaw(str)
        as == ArgsInOrder(desc, order)
        b == FirstBadArg(raw, desc, order) IN
    IF b = 0
    THEN [some |-> TRUE, args |-> ArgsListOf(raw, desc), logged |-> "none"]
    ELSE [some |-> FALSE, args |-> << >>,
          logged |-> ParseArg(raw, as[b], desc[as[b]]).error]

\* parse of the core's adapter (cli_adapter.rs 140-174): unwrap() of the
\* u64 parse, unreachable!() for another bool and for a missing argument.
ParseOrPanic(str, desc, order) ==
    LET raw == ParseRaw(str)
        b == FirstBadArg(raw, desc, order) IN
    IF b = 0
    THEN [panic |-> FALSE, args |-> ArgsListOf(raw, desc)]
    ELSE [panic |-> TRUE, args |-> << >>]

\* What became of a line: the handler run with args, or not; what was
\* logged for the operator; whether the adapter takes the next line.
CliOutcome(adapter, id, what, args, logged, alive) ==
    [adapter |-> adapter, line |-> id, what |-> what, args |-> args,
     logged |-> logged, alive |-> alive]

\* CmdManagerAdapter::handle (cmd_manager_adapter.rs 29-59).
HandleOutcome(id, order) ==
    LET cmd_line == StripNewlines(CliLines[id].text)
        cmd_name == CmdName(cmd_line)
        args_str == ArgsStr(cmd_line) IN
    IF cmd_name \notin DOMAIN CmdList
    THEN CliOutcome("server", id, "not invoked", << >>, "unknown command", TRUE)
    ELSE LET r == ParseOption(args_str, CmdList[cmd_name], order) IN
         IF r.some
         THEN CliOutcome("server", id, "invoked", r.args, "none", TRUE)
         ELSE CliOutcome("server", id, "not invoked", << >>, r.logged, TRUE)

\* One turn of the loop of CmdManagerCliAdapter::run (cli_adapter.rs 36-65):
\* unwrap() of the lookup, parse, then quit or the handler.
RunTurnOutcome(id, order) ==
    LET cmd_line == StripNewlines(CliLines[id].text)
        cmd_name == CmdName(cmd_line)
        args_str == ArgsStr(cmd_line) IN
    IF cmd_name \notin DOMAIN CoreCmdList
    THEN CliOutcome("core", id, "panic", << >>, "none", FALSE)
    ELSE LET r == ParseOrPanic(args_str, CoreCmdList[cmd_name], order) IN
         IF r.panic
         THEN CliOutcome("core", id, "panic", << >>, "none", FALSE)
         ELSE IF cmd_name = <<"q">>
              THEN CliOutcome("core", id, "quit", << >>, "none", FALSE)
              ELSE CliOutcome("core", id, "invoked", r.args, "none", TRUE)

\* The server's CLI hands a line to its input handler (cli/mod.rs 53-72).
ServerHandle(id, order) ==
    /\ Len(cliLog) < MaxCliLines
    /\ cliLog' = Append(cliLog, HandleOutcome(id, order))
    /\ UNCHANGED corePc
    /\ UNCHANGED <<svcVars, rpcVars, evVars, cliOthers>>

\* The core's loop reads a line and takes one turn.
CoreRunTurn(id, order) ==
    /\ Len(cliLog) < MaxCliLines
    /\ corePc = "running"
    /\ cliLog' = Append(cliLog, RunTurnOutcome(id, order))
    /\ corePc' = CASE RunTurnOutcome(id, order).what = "panic" -> "panicked"
                   [] RunTurnOutcome(id, order).what = "quit" -> "quit"
                   [] OTHER -> "running"
    /\ UNCHANGED <<svcVars, rpcVars, evVars, cliOthers>>

NextCli ==
    \/ \E id \in LineIds, order \in ArgOrders : ServerHandle(id, order)
    \/ \E id \in LineIds, order \in ArgOrders : CoreRunTurn(id, order)

SpecCli == InitService /\ [][NextCli]_vars

\* The handled lines that had an argument missing or of the wrong type.
BadArgLines(adapter) ==
    {i \in 1..Len(cliLog) :
        /\ cliLog[i].adapter = adapter
        /\ CliLines[cliLog[i].line].kind \in {"missing", "mistyped"}}

\* The failure is reported, the handler is not invoked, the next line is
\* taken.
Rejected(o) ==
    /\ o.what = "not invoked"
    /\ o.logged \in {"not found", "invalid int", "invalid bool"}
    /\ o.alive

\* C25: a line with a missing or mistyped argument is reported, its
\* command's handler is not invoked, and the command line takes the next
\* line; for both adapters of the repository.
CliRejectsBadArgs ==
    \A adapter \in {"server", "core"} : \A i \in BadArgLines(adapter) :
        Rejected(cliLog[i])

\* The server's adapter does so.
ServerRejectsBadArgs ==
    /\ \A i \in BadArgLines("server") : Rejected(cliLog[i])
    /\ \A i \in 1..Len(cliLog) :
          (cliLog[i].adapter = "server"
              /\ CliLines[cliLog[i].line].kind = "valid")
          => cliLog[i].what = "invoked"

\* The core's adapter does not invoke the handler either, and stops there.
CoreStopsOnBadArgs ==
    /\ \A i \in BadArgLines("core") :
          cliLog[i].what = "panic" /\ ~cliLog[i].alive
    /\ (\E i \in BadArgLines("core") : TRUE) => corePc = "panicked"

(***************************************************************************)
(*                          THE SETTINGS STORE                             *)
(***************************************************************************)
\* Keys and values are strings, strings are sequences of characters.
SettingKeys ==
    {<<"a", ".", "b">>, <<"a", ".", "b", ".", "c">>, <<"a", ".", "c">>,
     <<".", "a">>}

SettingValues == {<<"v">>, <<"1", "2">>, << >>}

\* The orders in which the HashMap of properties can be iterated.
RECURSIVE KeyOrders(_)
KeyOrders(ks) ==
    IF ks = {} THEN {<< >>}
    ELSE UNION {{<<k>> \o o : o \in KeyOrders(ks \ {k})} : k \in ks}

AllKeyOrders == UNION {KeyOrders(ks) : ks \in SUBSET SettingKeys}

\* str.split("."): the pieces between the dots, empty ones included.
RECURSIVE SplitDots(_)
SplitDots(str) ==
    IF \A i \in 1..Len(str) : str[i] /= "."
    THEN <<str>>
    ELSE LET d == CHOOSE i \in 1..Len(str) :
                     str[i] = "." /\ \A j \in 1..(i - 1) : str[j] /= "."
         IN <<SubSeq(str, 1, d - 1)>> \o SplitDots(SubSeq(str, d + 1, Len(str)))

\* The nodes of a Yaml document: a string, a scalar of another type, a hash.
\* A hash keeps its entries in insertion order.
YamlString(v) == [type |-> "String", str |-> v, hash |-> << >>]

YamlOther(ty) == [type |-> ty, str |-> << >>, hash |-> << >>]

YamlHash(h) == [type |-> "Hash", str |-> << >>, hash |-> h]

\* Hash::get: the place of the entry of a key, 0 for None.
HashPlace(h, k) ==
    IF \E i \in 1..Len(h) : h[i].key = k
    THEN CHOOSE i \in 1..Len(h) : h[i].key = k
    ELSE 0

\* Hash::insert: the entry is put last, an earlier entry of the key goes.
HashInsert(h, k, node) ==
    Append(SelectSeq(h, LAMBDA e : e.key /= k), [key |-> k, node |-> node])

\* Hash::get_mut(k) followed by a change of the node in place.
HashReplace(h, k, node) ==
    [i \in 1..Len(h) |-> IF h[i].key = k THEN [key |-> k, node |-> node] ELSE h[i]]

\* dump_recursive (lines 134-162): root with the property put at the path;
\* panic when an inner piece of the path is there and is no hash.
RECURSIVE DumpRecursive(_, _, _)
DumpRecursive(root, key, value) ==
    LET node_key == key[1]
        rest == Tail(key)
        place == HashPlace(root, node_key) IN
    IF rest /= << >>
    THEN IF place /= 0
         THEN IF root[place].node.type = "Hash"
              THEN LET sub == DumpRecursive(root[place].node.hash, rest, value) IN
                   IF sub.panic THEN sub
                   ELSE [panic |-> FALSE,
                         hash |-> HashReplace(root, node_key, YamlHash(sub.hash))]
              ELSE [panic |-> TRUE, hash |-> << >>]
         ELSE LET sub == DumpRecursive(<< >>, rest, value) IN
              [panic |-> FALSE,
               hash |-> HashInsert(root, node_key, YamlHash(sub.hash))]
    ELSE [panic |-> FALSE, hash |-> HashInsert(root, node_key, YamlString(value))]

\* The loop of save_to_string (lines 123-127) over the properties in the
\* order of the iteration.
RECURSIVE DumpAll(_, _, _)
DumpAll(root, props, order) ==
    IF order = << >> THEN [panic |-> FALSE, hash |-> root]
    ELSE LET one == DumpRecursive(root, SplitDots(Head(order)), props[Head(order)]) IN
         IF one.panic THEN one ELSE DumpAll(one.hash, props, Tail(order))

AllDigits(str) == str /= << >> /\ \A i \in 1..Len(str) : str[i] \in Digits

\* An emitter that writes every string plain.
NeedQuotes_never(str) == FALSE

\* The emitter writes a string in quotes when a plain scalar of the same
\* characters would be read as something else: the empty string, a number,
\* a boolean or null word, a string that starts with a dot.
NeedQuotes(str) ==
    \/ str = << >>
    \/ AllDigits(str)
    \/ str \in {<<"t", "r", "u", "e">>, <<"n", "u", "l", "l">>, <<"~">>}
    \/ Head(str) = "."

EmitScalar(str) == [quoted |-> NeedQuotes(str), chars |-> str]

\* The place of the value in a line "key:" that has none.
NoScalar == [quoted |-> FALSE, chars |-> <<"\n">>]

\* YamlEmitter::dump of a hash in block style: one line per entry, "key:
\* value" for a string, "key:" and the entries one level deeper for a hash.
RECURSIVE EmitHash(_, _)
EmitHash(h, level) ==
    IF h = << >> THEN << >>
    ELSE (IF Head(h).node.type = "Hash"
          THEN <<[indent |-> level, key |-> EmitScalar(Head(h).key),
                  val |-> NoScalar]>>
               \o EmitHash(Head(h).node.hash, level + 1)
          ELSE <<[indent |-> level, key |-> EmitScalar(Head(h).key),
                  val |-> EmitScalar(Head(h).node.str)]>>)
         \o EmitHash(Tail(h), level)

\* The document of an empty hash is the flow form "{}".
EmptyDocument ==
    <<[indent |-> 0, key |-> [quoted |-> FALSE, chars |-> <<"{", "}">>],
       val |-> NoScalar]>>

EmitDocument(h) == IF h = << >> THEN EmptyDocument ELSE EmitHash(h, 0)

\* save_to_string (lines 122-132).
SaveToString(props, order) ==
    LET d == DumpAll(<< >>, props, order) IN
    IF d.panic THEN [panic |-> TRUE, text |-> << >>]
    ELSE [panic |-> FALSE, text |-> EmitDocument(d.hash)]

\* The loader reads a quoted scalar as a string and a plain one by its
\* characters.
LoadScalar(tok) ==
    IF tok.quoted THEN YamlString(tok.chars)
    ELSE IF AllDigits(tok.chars) THEN YamlOther("Integer")
    ELSE IF tok.chars = <<"t", "r", "u", "e">> THEN YamlOther("Boolean")
    ELSE IF tok.chars \in {<<"n", "u", "l", "l">>, <<"~">>, << >>}
         THEN YamlOther("Null")
    ELSE YamlString(tok.chars)

\* The lines at the head of a text that lie deeper than a level.
RECURSIVE DeeperPrefix(_, _)
DeeperPrefix(lines, level) ==
    IF lines = << >> THEN 0
    ELSE IF Head(lines).indent <= level THEN 0
    ELSE 1 + DeeperPrefix(Tail(lines), level)

\* YamlLoader::load_from_str of a block of lines of one level: a hash with
\* the entries in the order of the lines.
RECURSIVE LoadBlock(_, _)
LoadBlock(lines, level) ==
    IF lines = << >> THEN << >>
    ELSE LET n == DeeperPrefix(Tail(lines), level)
             children == SubSeq(Tail(lines), 1, n)
             after == SubSeq(Tail(lines), n + 1, Len(lines) - 1)
             node == IF Head(lines).val = NoScalar
                     THEN YamlHash(LoadBlock(children, level + 1))
                     ELSE LoadScalar(Head(lines).val) IN
         <<[key |-> LoadScalar(Head(lines).key), node |-> node]>>
            \o LoadBlock(after, level)

LoadDocument(text) == IF text = EmptyDocument THEN << >> ELSE LoadBlock(text, 0)

\* load_recursive (lines 93-115): the strings of the hash and of the hashes
\* inside it, each under the names on its path joined with dots; panic when
\* a name is no string (as_str().unwrap()).
RECURSIVE LoadRecursive(_, _, _)
LoadRecursive(hash, props, key) ==
    IF hash = << >> THEN [panic |-> FALSE, props |-> props]
    ELSE IF Head(hash).key.type /= "String" THEN [panic |-> TRUE, props |-> << >>]
    ELSE LET name == Head(hash).key.str
             next_key == IF Len(key) > 0 THEN key \o <<".">> \o name ELSE name
             first ==
                 CASE Head(hash).node.type = "Hash" ->
                        LoadRecursive(Head(hash).node.hash, props, next_key)
                   [] Head(hash).node.type = "String" ->
                        [panic |-> FALSE,
                         props |-> MapInsert(props, next_key, Head(hash).node.str)]
                   [] OTHER -> [panic |-> FALSE, props |-> props] IN
         IF first.panic THEN first
         ELSE LoadRecursive(Tail(hash), first.props, key)

\* init_from_string (lines 79-91).
InitFromString(text) == LoadRecursive(LoadDocument(text), << >>, << >>)

\* get_string(key).get() (lines 164-181): the value, "" for a key the store
\* did not have.
GetStringValue(props, key) ==
    IF key \in DOMAIN props THEN props[key] ELSE << >>

\* get_string(key).set(value): the property is made if it is not there.
SetString(k, v) ==
    /\ setPc = "building"
    /\ setOps < MaxSetOps
    /\ properties' = MapInsert(properties, k, v)
    /\ setOps' = setOps + 1
    /\ UNCHANGED <<setPc, savedText, reloaded>>
    /\ UNCHANGED <<svcVars, rpcVars, evVars, setOthers>>

\* save_to_string, with the iteration order of the HashMap.
SaveSettings(order) ==
    /\ setPc = "building"
    /\ order \in KeyOrders(DOMAIN properties)
    /\ setPc' = IF SaveToString(properties, order).panic
                THEN "save panicked" ELSE "saved"
    /\ savedText' = SaveToString(properties, order).text
    /\ UNCHANGED <<properties, setOps, reloaded>>
    /\ UNCHANGED <<svcVars, rpcVars, evVars, setOthers>>

\* init_from_string of the saved text.
LoadSettings ==
    /\ setPc = "saved"
    /\ setPc' = IF InitFromString(savedText).panic
                THEN "load panicked" ELSE "loaded"
    /\ reloaded' = InitFromString(savedText).props
    /\ UNCHANGED <<properties, setOps, savedText>>
    /\ UNCHANGED <<svcVars, rpcVars, evVars, setOthers>>

NextSettings ==
    \/ \E k \in SettingKeys, v \in SettingValues : SetString(k, v)
    \/ \E order \in AllKeyOrders : SaveSettings(order)
    \/ LoadSettings

SpecSettings == InitService /\ [][NextSettings]_vars

\* A key with a dot in it.
Dotted(k) == \E i \in 1..Len(k) : k[i] = "."

\* The saved store came back: no panic on the way, and after the load every
\* string property of the store reads as it did.
CameBack ==
    /\ setPc \notin {"save panicked", "load panicked"}
    /\ setPc = "loaded" =>
          \A k \in DOMAIN properties :
              GetStringValue(reloaded, k) = properties[k]

\* C26: for a store whose string properties have dotted keys,
\* init_from_string(save_to_string(s)) is a store in which get_string(k).get()
\* is the value of k in s, for every string property k of s.
SettingsRoundTrip ==
    (\A k \in DOMAIN properties : Dotted(k)) => CameBack

\* One path is the beginning of another, longer one.
PathBelow(k, j) ==
    /\ Len(SplitDots(k)) < Len(SplitDots(j))
    /\ SubSeq(SplitDots(j), 1, Len(SplitDots(k))) = SplitDots(k)

\* The stores that are trees: no key is a path to another key, and no
\* dotted key starts with a dot.
TreeKeys(props) ==
    \A k \in DOMAIN props :
        /\ Dotted(k) => Head(k) /= "."
        /\ \A j \in DOMAIN props : ~PathBelow(k, j)

\* The round trip holds for the stores that are trees.
SettingsRoundTripOfTrees == TreeKeys(properties) => CameBack

SettingsRoundTripOfTreesWitness ==
    /\ setPc = "loaded"
    /\ TreeKeys(properties)
    /\ Cardinality(DOMAIN properties) = 2
    /\ \E k \in DOMAIN properties : properties[k] = <<"1", "2">>
    /\ \E k \in DOMAIN properties : properties[k] = << >>

\* What the code does with a key that is a path to another key: the save
\* panics, or the text is written without one of the two properties, by the
\* order in which the properties are iterated.
PathKeysLostOrPanicked ==
    \A k, j \in DOMAIN properties :
        (PathBelow(k, j) /\ setPc \in {"save panicked", "loaded"}) =>
            \/ setPc = "save panicked"
            \/ setPc = "loaded" /\ j \notin DOMAIN reloaded

(***************************************************************************)
(*             MORE PROPERTIES OF THE TASK MANAGER AND THE POOL            *)
(***************************************************************************)
\* The tracked jobs and the instant jobs that are running.
TrackedRunning == {c \in Tracked : ~taskCtx[c].exited}

InstantRunning == {c \in Instant : ~taskCtx[c].exited}

\* C31: a tracked job runs on a thread of its own and takes no worker of the
\* pool: whenever an instant job is queued and fewer than PoolSize instant
\* jobs are running, a worker can take it, however many tracked jobs are
\* running; and with tracked jobs that never exit, every queued instant job
\* is started.
TrackedOutsidePool ==
    /\ []((poolQueue > 0 /\ Cardinality(InstantRunning) < PoolSize)
             => ENABLED InstantStart)
    /\ (poolQueue > 0) ~> (poolQueue = 0)

TrackedOutsidePoolWitness ==
    /\ Cardinality(TrackedRunning) >= PoolSize
    /\ InstantRunning /= {}
    /\ \A c \in InstantRunning : \A d \in TrackedRunning : d < c

\* C40: a record is flagged only by a stop() that began when the record was
\* in the registry, so the record of a run made after the stops so far have
\* returned is false, and stays false while no stop() begins; a new record
\* is false whatever was stopped before, and run is accepted after stop().
StopLeavesLaterRuns ==
    /\ [](\A c \in Tracked :
             taskCtx[c].is_interrupted =>
                 \/ c \in signalled
                 \/ \E t \in Threads : stopPc[t] = "iter" /\ c \in Range(stopSnap[t]))
    /\ [](\A t \in Threads :
             (signalled /= {} /\ stopPc[t] = "idle" /\ TasksReaders = {}
                 /\ tkOps < MaxTaskOps) => ENABLED Run(t))
    /\ [][\A c \in Tracked :
             (~taskCtx[c].is_interrupted /\ \A t \in Threads : stopPc'[t] = stopPc[t]
                 /\ TasksReaders = {})
             => ~taskCtx'[c].is_interrupted]_vars

StopLeavesLaterRunsWitness ==
    /\ signalled /= {}
    /\ TasksReaders = {}
    /\ \E d \in TrackedRunning :
          /\ d \notin signalled
          /\ ~taskCtx[d].is_interrupted
          /\ \A c \in signalled : c < d /\ taskCtx[c].is_interrupted
    /\ \E c \in Instant : TRUE

\* C32: the pool has PoolSize workers: at most PoolSize listener bodies run
\* at the same time; the jobs handed over meanwhile wait in the queue in
\* the order they were submitted and are taken from its head; and once all
\* the workers run bodies that never return, no job is ever taken again,
\* while the emitting thread still has its next step.
PoolBounded ==
    /\ [](Cardinality(running) <= PoolSize)
    /\ [](/\ \A i, j \in 1..Len(queue) : i < j => queue[i] < queue[j]
          /\ \A r \in running \cup done : \A i \in 1..Len(queue) : r < queue[i])
    /\ [](PoolStuck => (~ENABLED PoolStep /\ \A t \in Emitting : ENABLED EmitterStep(t)))
    /\ [][/\ running' /= running =>
               \/ queue /= << >> /\ running' = running \cup {Head(queue)}
                                 /\ queue' = Tail(queue)
               \/ \E j \in running : running' = running \ {j} /\ queue' = queue
          /\ PoolStuck => (PoolStuck' /\ running' = running /\ done' = done
                           /\ Len(queue') >= Len(queue))]_vars

PoolBoundedWitness ==
    /\ PoolStuck
    /\ Len(queue) >= 2
    /\ Emitting = {}
    /\ \A t \in Emitters : evPc[t] = "idle"

(***************************************************************************)
(*          REGISTRATION WHILE THE CONTAINER STARTS OR STOPS               *)
(***************************************************************************)

\* A start or stop hook (service.start() / service.stop() of the entry the
\* loop is at) calls add_service on the container it belongs to: the thread
\* enters add_service_internal with the read guard of start()/stop() alive.
HookCallAdd(t, ty) ==
    /\ svcPc[t] = "iterate"
    /\ svcArg[t].todo /= << >>
    /\ Len(instType) < MaxInst
    /\ instType' = Append(instType, ty)
    /\ svcArg' = [svcArg EXCEPT ![t].ty = ty, ![t].inst = Len(instType) + 1]
    /\ svcPc' = [svcPc EXCEPT ![t] = "add_internal"]
    /\ UNCHANGED <<services, services_order, svcWriter, orderReaders, hooks,
                   svcRet, handles, nops>>
    /\ UNCHANGED <<rpcVars, evVars, extVars>>

\* services_order.write() by the thread that holds the read guard: RwLock
\* either blocks (no step) or panics; the panic unwinds through the hook and
\* the loop, drops the read guard and leaves the lock of services poisoned.
HookAddPanics(t) ==
    /\ svcPc[t] = "add_locked"
    /\ t \in orderReaders
    /\ svcPc' = [svcPc EXCEPT ![t] = "panicked"]
    /\ orderReaders' = orderReaders \ {t}
    /\ svcWriter' = {"poisoned"}
    /\ UNCHANGED <<services, services_order, instType, svcArg, hooks, svcRet,
                   handles, nops>>
    /\ UNCHANGED <<rpcVars, evVars, extVars>>

NextSvcHooks ==
    \/ NextSvc
    \/ \E t \in Threads, ty \in Types : HookCallAdd(t, ty)
    \/ \E t \in Threads : HookAddPanics(t)

SpecServiceHooks == InitService /\ [][NextSvcHooks]_vars

\* The threads inside start() or stop(), and those whose hook is registering.
Iterating == {t \in Threads : svcPc[t] = "iterate"}

HookRegistering ==
    {t \in Threads : t \in orderReaders /\ svcPc[t] \in {"add_internal", "add_locked"}}

\* The entries start()/stop() of thread t visits: those of services_order.
IterOf(t) ==
    IF svcArg[t].op = "start" THEN StartIter(services_order)
                              ELSE StopIter(services_order)

\* C39: start() and stop() hold the read lock of services_order for the whole
\* loop.  While a thread is in the loop the sequence does not change and a
\* concurrent registration waits at its push; the hooks invoked and those
\* still to come are the entries present when the loop began, and the hooks
\* of a returned start()/stop() are the entries of the sequence at its
\* return.  A registration made from inside a hook never completes: its push
\* is never enabled, it stays at the push or panics, and never returns.
IterationHoldsOrder ==
    /\ [](\A t \in Iterating : hooks[t] \o svcArg[t].todo = IterOf(t))
    /\ [](\A u \in Threads :
            (svcPc[u] = "add_locked" /\ orderReaders /= {}) => ~ENABLED AddInternalPush(u))
    /\ [][orderReaders /= {} => services_order' = services_order]_vars
    /\ [][\A t \in Threads :
            (svcPc[t] = "iterate" /\ svcPc'[t] = "idle") =>
               /\ svcRet'[t].hooks = hooks[t]
               /\ svcRet'[t].hooks = IterOf(t)
               /\ services_order' = services_order]_vars
    /\ [][\A t \in HookRegistering :
            /\ svcPc'[t] \in {"add_internal", "add_locked", "panicked"}
            /\ svcRet'[t] = svcRet[t]
            /\ services_order' = services_order]_vars
    /\ [][\A t \in Threads : svcPc[t] = "panicked" => svcPc'[t] = "panicked"]_vars

\* A start() or stop() whose hook registers is stuck at the push, holding the
\* write guard of services, while a registration of the other thread waits.
IterationHoldsOrderWitness ==
    /\ \E t \in HookRegistering : svcPc[t] = "add_locked" /\ svcArg[t].todo /= << >>
    /\ \E u \in Threads : svcPc[u] = "add_internal" /\ u \notin orderReaders

(***************************************************************************)
(*          STOPPING A CONTAINER THAT HOLDS THE TASK MANAGER               *)
(***************************************************************************)

\* The services of a container with background work: the TaskManager, a
\* service whose stop hook returns at once ("Plain"), and a service that runs
\* tracked jobs and whose stop hook waits until they have exited ("Waiter");
\* its jobs loop until is_interrupted() is true.
ShutdownTypes == {"TaskManager", "Waiter", "Plain"}

\* Context::init_service by one thread: S::initialize, add_service_internal.
\* The write lock of services_order waits for the readers.
InitFeature(t, ty) ==
    /\ svcPc[t] = "idle"
    /\ nops < MaxOps
    /\ Len(instType) < MaxInst
    /\ ty \notin DOMAIN services
    /\ svcWriter = {}
    /\ orderReaders = {}
    /\ instType' = Append(instType, ty)
    /\ services' = MapInsert(services, ty, Len(instType) + 1)
    /\ services_order' = Append(services_order, Len(instType) + 1)
    /\ nops' = nops + 1
    /\ UNCHANGED <<svcWriter, orderReaders, svcPc, svcArg, hooks, svcRet, handles>>
    /\ UNCHANGED <<rpcVars, evVars, extVars>>

\* The Waiter takes the TaskManager with get_service and runs a tracked job.
WaiterRun(t) ==
    /\ svcPc[t] = "idle"
    /\ svcWriter = {}
    /\ GetServiceResult(services, "TaskManager").ok
    /\ GetServiceResult(services, "Waiter").ok
    /\ Run(t)

\* The tracked job sees is_interrupted() true and returns.
JobObserves(c) ==
    /\ c \in 1..Len(taskCtx)
    /\ taskCtx[c].is_interrupted
    /\ TrackedExit(c)

\* The entry start()/stop() of thread t is at.
HookAt(t) ==
    IF svcPc[t] = "iterate" /\ svcArg[t].todo /= << >>
    THEN instType[Head(svcArg[t].todo)] ELSE "none"

\* service.stop() of a Plain entry: it returns.
HookPlain(t) ==
    /\ HookAt(t) = "Plain"
    /\ InvokeHook(t)

\* service.stop() of the Waiter: it returns when its jobs have exited.
HookWaiter(t) ==
    /\ HookAt(t) = "Waiter"
    /\ \A c \in 1..Len(taskCtx) : taskCtx[c].tracked => taskCtx[c].exited
    /\ InvokeHook(t)

\* service.stop() of the TaskManager: tasks.read() and the loop begin.
HookStopBegin(t) ==
    /\ HookAt(t) = "TaskManager"
    /\ StopBegin(t)

\* TaskManager::stop returns to the loop of Context::stop.
HookStopEnd(t) ==
    /\ HookAt(t) = "TaskManager"
    /\ stopPc[t] = "iter"
    /\ stopIdx[t] > Len(tasks)
    /\ stopPc' = [stopPc EXCEPT ![t] = "idle"]
    /\ stopIdx' = [stopIdx EXCEPT ![t] = 0]
    /\ stopSnap' = [stopSnap EXCEPT ![t] = << >>]
    /\ signalled' = signalled \cup Range(stopSnap[t])
    /\ hooks' = [hooks EXCEPT ![t] = Append(@, Head(svcArg[t].todo))]
    /\ svcArg' = [svcArg EXCEPT ![t].todo = Tail(@)]
    /\ UNCHANGED <<services, services_order, instType, svcWriter, orderReaders,
                   svcPc, svcRet, handles, nops>>
    /\ UNCHANGED <<tasks, taskCtx, poolQueue, tkOps>>
    /\ UNCHANGED <<rpcVars, evVars, tkOthers>>

NextShutdown ==
    \/ \E t \in Threads, ty \in ShutdownTypes : InitFeature(t, ty)
    \/ \E t \in Threads : WaiterRun(t)
    \/ \E c \in TaskIds : JobObserves(c)
    \/ \E t \in Threads : CallStop(t)
    \/ \E t \in Threads : HookPlain(t)
    \/ \E t \in Threads : HookWaiter(t)
    \/ \E t \in Threads : HookStopBegin(t)
    \/ \E t \in Threads : StopSet(t)
    \/ \E t \in Threads : HookStopEnd(t)
    \/ \E t \in Threads : EndIterate(t)

SpecShutdown == InitService /\ [][NextShutdown]_vars

\* The start-up order of the application: the TaskManager is the first entry.
ManagerFirst ==
    services_order /= << >> /\ instType[services_order[1]] = "TaskManager"

\* Thread t is in Context::stop and every entry after the first has been
\* stopped: only the first entry's hook is left.
AtLastHook(t) ==
    /\ svcPc[t] = "iterate"
    /\ svcArg[t].op = "stop"
    /\ svcArg[t].todo = <<services_order[1]>>
    /\ hooks[t] = Reverse(Tail(services_order))

\* The threads whose stop() is in the Waiter's hook while a job of it runs.
WaitingInWaiter == {t \in Threads : HookAt(t) = "Waiter" /\ TrackedRunning /= {}}

\* The running jobs no stop has signalled.
Unflagged == {c \in TrackedRunning : ~taskCtx[c].is_interrupted}

\* Thread u is in start()/stop() and the Waiter's hook has returned to it.
Passed(u) ==
    svcPc[u] = "iterate" /\ \E i \in Range(hooks[u]) : instType[i] = "Waiter"

\* A thread waits in the Waiter's hook, a job has not been signalled, and no
\* thread is further in a stop() of its own.
Stuck ==
    /\ ManagerFirst
    /\ WaitingInWaiter /= {}
    /\ Unflagged /= {}
    /\ \A u \in Threads : ~Passed(u)

\* C33 as stated: with the TaskManager first, no flag of a running job is set
\* while a thread waits in the Waiter's stop hook, so the hook never returns.
WaiterNeverReturns ==
    ManagerFirst =>
       \A t \in WaitingInWaiter : \A c \in TrackedRunning : ~taskCtx[c].is_interrupted

\* C33: with the TaskManager registered first, Context::stop reaches
\* TaskManager::stop last.  A flag of a tracked job is set only by a thread
\* for which the stop hooks of all later entries have returned, and the
\* TaskManager is the last hook of every stop() that returns.  A stop hook
\* that waits for its running jobs is not enabled; when a job of it has not
\* been signalled and no other thread is past that hook in a stop() of its
\* own, this stays so: the job stays unsignalled and the waiting threads
\* never leave the hook.
ManagerStopsLast ==
    /\ [](ManagerFirst => \A t \in WaitingInWaiter : ~ENABLED HookWaiter(t))
    /\ [][ManagerFirst =>
            \A c \in Tracked :
               (~taskCtx[c].is_interrupted /\ taskCtx'[c].is_interrupted) =>
                  \E t \in Threads : AtLastHook(t) /\ stopPc[t] = "iter"]_vars
    /\ [][ManagerFirst =>
            \A t \in Threads :
               (svcPc[t] = "iterate" /\ svcArg[t].op = "stop" /\ svcPc'[t] = "idle") =>
                  /\ svcRet'[t].hooks /= << >>
                  /\ instType[svcRet'[t].hooks[Len(svcRet'[t].hooks)]] = "TaskManager"]_vars
    /\ [][Stuck =>
            /\ Stuck'
            /\ Unflagged \subseteq Unflagged'
            /\ \A t \in WaitingInWaiter :
                  svcPc'[t] = svcPc[t] /\ svcArg'[t] = svcArg[t] /\ hooks'[t] = hooks[t]]_vars

\* The TaskManager is first, a Plain service has been stopped and the thread
\* waits in the Waiter's hook for a job no stop has signalled.
ManagerStopsLastWitness ==
    /\ Stuck
    /\ \E t \in WaitingInWaiter : hooks[t] /= << >>

\* Without the start-up order the Waiter's hook can return: registered before
\* the TaskManager it is stopped after it.
WaiterBeforeManagerReturns ==
    /\ ~ManagerFirst
    /\ \E t \in Threads : svcRet[t].op = "stop" /\ Len(svcRet[t].hooks) >= 2
                           /\ \E i \in Range(svcRet[t].hooks) : instType[i] = "Waiter"
    /\ \E c \in Tracked : taskCtx[c].exited

(***************************************************************************)
(*                   RAW EVENTS SENT THROUGH THE GATE                      *)
(***************************************************************************)

\* EventEmitterGate::send_raw_event is called with a key and a serialized
\* payload that came in from a transport.
GateSendRawEvent(t, key, v) ==
    /\ evPc[t] = "idle"
    /\ Len(emitted) < MaxEmits
    /\ emitted' = Append(emitted, [key |-> key, val |-> v])
    /\ evArg' = [evArg EXCEPT ![t] =
                   [NoEmit EXCEPT !.key = key, !.data = ToStringEv(v),
                                  !.em = Len(emitted) + 1]]
    /\ evPc' = [evPc EXCEPT ![t] = "gate_send_raw_event"]
    /\ UNCHANGED <<events, listeners, observers, evReaders, obsReaders, evRet,
                   submitted, queue, running, done>>
    /\ UNCHANGED <<svcVars, rpcVars, extVars>>

\* The gate forwards to EventEmitter::send_raw_event, lines 95-96:
\* events.read() and events.get(key); with no listener the call returns.
GateLookup(t) ==
    /\ evPc[t] = "gate_send_raw_event"
    /\ LET ls == ListenersOf(events, evArg[t].key) IN
       /\ IF ls = << >>
          THEN /\ evRet' = [evRet EXCEPT ![t] = EmitResult(t, "gate", << >>)]
               /\ evArg' = [evArg EXCEPT ![t] = NoEmit]
               /\ evPc' = [evPc EXCEPT ![t] = "returned"]
               /\ UNCHANGED evReaders
          ELSE /\ evArg' = [evArg EXCEPT ![t].listeners = ls, ![t].next = 1]
               /\ evPc' = [evPc EXCEPT ![t] = "gate_listeners"]
               /\ evReaders' = evReaders \cup {t}
               /\ UNCHANGED evRet
    /\ UNCHANGED <<events, listeners, observers, obsReaders, emitted,
                   submitted, queue, running, done>>
    /\ UNCHANGED <<svcVars, rpcVars, extVars>>

\* A gate whose send_raw_event goes on to send_to_observers after the last
\* listener, as emit does.
GateInvokeListener_observers(t) ==
    /\ evPc[t] = "gate_listeners"
    /\ LET l == evArg[t].listeners[evArg[t].next]
           r == ListenerWrapper(listeners[l].ty, evArg[t].data)
           last == evArg[t].next = Len(evArg[t].listeners) IN
       IF ~r.ok
       THEN /\ evRet' = [evRet EXCEPT ![t] = EmitResult(t, "panic", << >>)]
            /\ evArg' = [evArg EXCEPT ![t] = NoEmit]
            /\ evPc' = [evPc EXCEPT ![t] = "returned"]
            /\ evReaders' = evReaders \ {t}
            /\ UNCHANGED <<submitted, queue>>
       ELSE /\ CanExecute(queue, running)
            /\ submitted' = Append(submitted,
                               [lis |-> l, em |-> evArg[t].em,
                                val |-> [ty |-> r.ty, val |-> r.val]])
            /\ queue' = Append(queue, Len(submitted) + 1)
            /\ evArg' = [evArg EXCEPT ![t].next = @ + 1]
            /\ evPc' = [evPc EXCEPT ![t] =
                          IF last THEN "send_to_observers" ELSE "gate_listeners"]
            /\ evReaders' = IF last THEN evReaders \ {t} ELSE evReaders
            /\ UNCHANGED evRet
    /\ UNCHANGED <<events, listeners, observers, obsReaders, emitted, running,
                   done>>
    /\ UNCHANGED <<svcVars, rpcVars, extVars>>

\* send_raw_event, lines 97-100, for one listener, called through the gate:
\* the wrapper decodes (a panic when the payload does not decode) and hands
\* the job to the pool; after the last listener the guard is dropped and the
\* gate's call returns.
GateInvokeListener(t) ==
    /\ evPc[t] = "gate_listeners"
    /\ LET l == evArg[t].listeners[evArg[t].next]
           r == ListenerWrapper(listeners[l].ty, evArg[t].data)
           last == evArg[t].next = Len(evArg[t].listeners) IN
       IF ~r.ok
       THEN /\ evRet' = [evRet EXCEPT ![t] = EmitResult(t, "panic", << >>)]
            /\ evArg' = [evArg EXCEPT ![t] = NoEmit]
            /\ evPc' = [evPc EXCEPT ![t] = "returned"]
            /\ evReaders' = evReaders \ {t}
            /\ UNCHANGED <<submitted, queue>>
       ELSE /\ CanExecute(queue, running)
            /\ submitted' = Append(submitted,
                               [lis |-> l, em |-> evArg[t].em,
                                val |-> [ty |-> r.ty, val |-> r.val]])
            /\ queue' = Append(queue, Len(submitted) + 1)
            /\ evReaders' = IF last THEN evReaders \ {t} ELSE evReaders
            /\ IF last
               THEN /\ evRet' = [evRet EXCEPT ![t] = EmitResult(t, "gate", << >>)]
                    /\ evArg' = [evArg EXCEPT ![t] = NoEmit]
                    /\ evPc' = [evPc EXCEPT ![t] = "returned"]
               ELSE /\ evArg' = [evArg EXCEPT ![t].next = @ + 1]
                    /\ UNCHANGED <<evRet, evPc>>
    /\ UNCHANGED <<events, listeners, observers, obsReaders, emitted, running,
                   done>>
    /\ UNCHANGED <<svcVars, rpcVars, extVars>>

NextEvGate ==
    \/ NextEv
    \/ \E t \in Emitters, key \in EvKeys, v \in EvValues : GateSendRawEvent(t, key, v)
    \/ \E t \in Emitters : GateLookup(t)
    \/ \E t \in Emitters : GateInvokeListener(t)

SpecEvGate == InitRpc /\ [][NextEvGate]_vars

\* The threads inside a send_raw_event made through the gate.
InGate == {t \in Emitters : evPc[t] \in {"gate_send_raw_event", "gate_listeners"}}

\* The listeners of the jobs submitted for call number em, in order.
JobListeners(subs, em) ==
    LET js == SelectSeq(subs, LAMBDA j : j.em = em) IN
    [i \in 1..Len(js) |-> js[i].lis]

\* C38: a raw event sent through the gate goes to the listeners of its key
\* and to no observer.  The thread of a gate call never holds the read guard
\* of the observers and has notified none; its next position is still in
\* the gate's call or the return, never send_to_observers; the jobs it has
\* submitted are for the first listeners of the key, in order, and at the
\* return of a call that did not panic for all of them; an observer is
\* notified only in a step of a thread inside emit's send_to_observers.
GateSkipsObservers ==
    /\ [](\A t \in InGate :
            /\ t \notin obsReaders
            /\ evArg[t].notified = << >>
            /\ evPc[t] = "gate_listeners" =>
                  /\ evArg[t].listeners = ListenersOf(events, evArg[t].key)
                  /\ JobListeners(submitted, evArg[t].em) =
                        SubSeq(evArg[t].listeners, 1, evArg[t].next - 1))
    /\ [][\A t \in InGate :
            /\ evPc'[t] \in {"gate_send_raw_event", "gate_listeners", "returned"}
            /\ evPc'[t] = "returned" =>
                  /\ evRet'[t].notified = << >>
                  /\ evRet'[t].status \in {"gate", "panic"}
                  /\ evRet'[t].status = "gate" =>
                        JobListeners(submitted', evArg[t].em) =
                           ListenersOf(events, evArg[t].key)]_vars
    /\ [][\A t \in Emitters :
            (\/ (evArg'[t].notified /= evArg[t].notified /\ evArg'[t].notified /= << >>)
             \/ (evRet'[t].notified /= evRet[t].notified /\ evRet'[t].notified /= << >>))
            => evPc[t] = "observers"]_vars
    /\ [][\A t \in Emitters :
            (evPc[t] /= "send_to_observers" /\ evPc'[t] = "send_to_observers")
            => evPc[t] \in {"send_raw_event", "listeners"}]_vars

\* A gate call has returned having handed a job to a listener of its key,
\* with an observer registered and none notified.
GateSkipsObserversWitness ==
    \E t \in Emitters :
        /\ evPc[t] = "returned"
        /\ evRet[t].status = "gate"
        /\ evRet[t].observers /= << >>
        /\ evRet[t].notified = << >>
        /\ JobListeners(submitted, evRet[t].em) /= << >>

(***************************************************************************)
(*              REGISTRATION WHILE A CALL IS IN FLIGHT                     *)
(***************************************************************************)

\* The closure of a sync handler, running under call_raw on the caller's
\* thread, calls on_generic_call_fn: add_raw_listener asks for calls.write()
\* while the thread holds calls.read().
HandlerRegisters(c) ==
    /\ rpcPc[c] = "wrapper"
    /\ rpcArg[c].kind = "fn"
    /\ rpcPc' = [rpcPc EXCEPT ![c] = "handler_registering"]
    /\ UNCHANGED <<calls, chan, callsReaders, rwPolicy, rpcArg, rpcRet, drvPc,
                   drvArg, lastRegistered, keyPanics, rpcOps>>
    /\ UNCHANGED <<svcVars, evVars, extVars>>

\* add_raw_listener of that registration: the write guard is had once no
\* reader holds the table, and the handler is inserted.
HandlerRegisterCommit(c, key, f) ==
    /\ rpcPc[c] = "handler_registering"
    /\ callsReaders = {}
    /\ calls' = TableInsert(calls, key,
                   [kind |-> "fn", f |-> f, ch |-> 0,
                    reg |-> lastRegistered[key].reg + 1])
    /\ lastRegistered' = [lastRegistered EXCEPT ![key] =
                            [reg |-> @.reg + 1, kind |-> "fn", f |-> f]]
    /\ rpcPc' = [rpcPc EXCEPT ![c] = "wrapper"]
    /\ UNCHANGED <<chan, callsReaders, rwPolicy, rpcArg, rpcRet, drvPc, drvArg,
                   keyPanics, rpcOps>>
    /\ UNCHANGED <<svcVars, evVars, extVars>>

\* calls.write() by the thread that holds the read guard: RwLock blocks (no
\* step) or panics; the panic unwinds through the closure and call_raw and
\* drops the read guard.
HandlerRegisterPanics(c) ==
    /\ rpcPc[c] = "handler_registering"
    /\ c \in callsReaders
    /\ rpcRet' = [rpcRet EXCEPT ![c] = Returned(c, "panic", << >>, 1, c)]
    /\ keyPanics' = keyPanics \cup {rpcArg[c].key}
    /\ callsReaders' = callsReaders \ {c}
    /\ rpcArg' = [rpcArg EXCEPT ![c] = NoCall]
    /\ rpcPc' = [rpcPc EXCEPT ![c] = "returned"]
    /\ UNCHANGED <<calls, chan, rwPolicy, drvPc, drvArg, lastRegistered, rpcOps>>
    /\ UNCHANGED <<svcVars, evVars, extVars>>

NextRpcHandlerRegisters ==
    \/ NextRpc
    \/ \E c \in Callers : HandlerRegisters(c)
    \/ \E c \in Callers : HandlerRegisterPanics(c)

SpecRpcHandlerRegisters == InitRpc /\ [][NextRpcHandlerRegisters]_vars

\* The callers whose handler registers from inside the call.
RegisteringInHandler == {c \in Callers : rpcPc[c] = "handler_registering"}

\* The calls in flight: a handler has been matched and call_raw has not
\* returned.
InFlight == Served \cup RegisteringInHandler

\* A registration waits behind a call that waits in rx.recv() for a response
\* nobody is going to send: the key's driver is not polling.
BehindUnpolled ==
    /\ drvPc = "registering"
    /\ \E c \in Callers : rpcPc[c] = "sent" /\ chan[rpcArg[c].ch].resp = << >>

\* C34: call_raw holds the read lock of the handler table while the matched
\* handler runs.  In flight calls hold the guard; a registration does not
\* complete while a call is in flight and the table changes only when none
\* is; a registration waiting behind a call blocked on an unpolled async key
\* waits for ever, the table as it was; a registration made from inside a
\* sync handler cannot complete: its call never goes on in the handler, it
\* stays there or panics, and the table does not change.
RegistrationWaitsForCalls ==
    /\ [](InFlight \subseteq callsReaders)
    /\ [](InFlight /= {} =>
            /\ ~ENABLED RegisterCommit
            /\ \A c \in RegisteringInHandler : \A key \in Keys :
                  ~ENABLED HandlerRegisterCommit(c, key, "sum"))
    /\ [][(calls' /= calls \/ lastRegistered' /= lastRegistered) => InFlight = {}]_vars
    /\ [][BehindUnpolled => (BehindUnpolled' /\ calls' = calls /\ drvPc' = drvPc)]_vars
    /\ [][\A c \in RegisteringInHandler :
            /\ rpcPc'[c] \in {"handler_registering", "returned"}
            /\ rpcPc'[c] = "returned" => rpcRet'[c].status = "panic"
            /\ calls' = calls]_vars

\* A registration waits behind a call whose sync handler waits in a
\* registration of its own.
RegistrationWaitsForCallsWitness ==
    /\ drvPc = "registering"
    /\ RegisteringInHandler /= {}

\* A registration waits behind a call that waits for an unpolled key.
BehindUnpolledWitness ==
    /\ BehindUnpolled
    /\ \E c \in Callers : rpcPc[c] = "sent" /\ chan[rpcArg[c].ch].req /= << >>

(***************************************************************************)
(*                 THE POISONED MUTEX OF AN ASYNC KEY                      *)
(***************************************************************************)

\* The callers whose call has matched an async handler (of either kind) and
\* is about to take the key's mutex.
AtAsyncWrapper == {c \in Callers : rpcPc[c] = "wrapper" /\ rpcArg[c].kind /= "fn"}

\* C35: a call_raw on an async key of either kind whose payload does not
\* deserialize fails holding the key's mutex and with nothing enqueued, and
\* leaves the mutex poisoned.  A poisoned mutex stays poisoned, nobody holds
\* it and its channel pair is empty; each later call that reaches it, also
\* with a valid payload, fails fatally with no closure run and without a
\* request enqueued.  A call that reaches a mutex that is not poisoned with a
\* valid payload takes it, and a registration of the key makes a channel
\* pair whose mutex is not poisoned.
PoisonedKeyStaysFatal ==
    /\ [](\A ch \in 1..Len(chan) :
            chan[ch].poisoned =>
               /\ chan[ch].kind \in {"async", "receiver"}
               /\ Holders(ch) = {}
               /\ chan[ch].mutex = {}
               /\ chan[ch].req = << >>
               /\ \A c \in Callers : ~RequestInFlight(c, ch))
    /\ [][\A ch \in 1..Len(chan) :
            /\ chan[ch].poisoned => (chan'[ch].poisoned /\ chan'[ch].req = << >>)
            /\ (~chan[ch].poisoned /\ chan'[ch].poisoned) =>
                  \E c \in AtAsyncWrapper :
                     /\ rpcArg[c].ch = ch
                     /\ ~FromStr(rpcArg[c].body).ok
                     /\ chan[ch].mutex = {}
                     /\ rpcPc'[c] = "returned"]_vars
    /\ [][\A c \in AtAsyncWrapper :
            rpcPc'[c] /= rpcPc[c] =>
               IF chan[rpcArg[c].ch].poisoned \/ ~FromStr(rpcArg[c].body).ok
               THEN /\ rpcPc'[c] = "returned"
                    /\ rpcRet'[c].status = "panic"
                    /\ rpcRet'[c].execs = 0
                    /\ chan'[rpcArg[c].ch].poisoned
                    /\ chan'[rpcArg[c].ch].req = chan[rpcArg[c].ch].req
                    /\ chan'[rpcArg[c].ch].mutex = {}
               ELSE /\ rpcPc'[c] = "locked"
                    /\ chan'[rpcArg[c].ch].mutex = {c}]_vars
    /\ [][Len(chan') > Len(chan) =>
            /\ ~chan'[Len(chan')].poisoned
            /\ calls'[chan'[Len(chan')].key].ch = Len(chan')]_vars

\* A call with a valid payload has failed on a key whose mutex an earlier
\* call had poisoned, and the key's channel pair is empty.
PoisonedKeyStaysFatalWitness ==
    \E c \in Back :
        /\ rpcRet[c].status = "panic"
        /\ rpcRet[c].kind /= "fn"
        /\ FromStr(rpcRet[c].body).ok
        /\ MutexPoisoned(rpcRet[c])

\* After the key was registered again a valid call is past the new mutex
\* while the old one is poisoned.
RegisteredAgainWitness ==
    \E c \in Callers : \E old \in 1..Len(chan) :
        /\ rpcPc[c] \in {"locked", "sent"}
        /\ chan[old].poisoned
        /\ chan[old].key = rpcArg[c].key
        /\ rpcArg[c].ch /= old

(***************************************************************************)
(*                 AN ASYNC KEY REGISTERED AGAIN                           *)
(***************************************************************************)

\* The channel pairs whose listener has been replaced in the table: the
\* driver or receiver returned with them is still there to be polled.
Replaced == {ch \in 1..Len(chan) : ~chan[ch].open}

\* The channel pair the table has for key k (0 when it has none).
CurrentOf(k) == IF k \in DOMAIN calls THEN calls[k].ch ELSE 0

\* C37: registering an async handler for a key makes a fresh channel pair
\* and the table points to it; the pair the key had is cut off.  Calls in
\* flight on an async key use the pair the table has for it; a replaced
\* pair is empty, nobody holds its mutex and nothing of it changes again,
\* whatever its driver polls; a call past its send is not enabled to return
\* while its response channel is empty, and a response is put there only by
\* the driver or the owner of that same pair.
RegisteredAgainCutsOff ==
    /\ [](\A c \in Served :
            rpcArg[c].kind /= "fn" =>
               /\ rpcArg[c].ch = CurrentOf(rpcArg[c].key)
               /\ rpcArg[c].ch \notin Replaced)
    /\ [](\A ch \in Replaced :
            /\ chan[ch].req = << >> /\ chan[ch].resp = << >>
            /\ ~chan[ch].pending
            /\ Holders(ch) = {}
            /\ CurrentOf(chan[ch].key) /= ch
            /\ ~(drvPc = "closure" /\ drvArg.ch = ch))
    /\ [](\A c \in Callers :
            (rpcPc[c] = "sent" /\ chan[rpcArg[c].ch].resp = << >>) => ~ENABLED AsyncRecv(c))
    /\ [][\A ch \in Replaced : ch \in Replaced' /\ chan'[ch] = chan[ch]]_vars
    /\ [][(drvPc = "registering" /\ drvArg.kind /= "fn" /\ drvPc' = "idle") =>
            /\ Len(chan') = Len(chan) + 1
            /\ calls'[drvArg.key].ch = Len(chan')
            /\ chan'[Len(chan')].req = << >> /\ chan'[Len(chan')].resp = << >>
            /\ chan'[Len(chan')].open
            /\ CurrentOf(drvArg.key) /= 0 => CurrentOf(drvArg.key) \in Replaced']_vars
    /\ [][\A ch \in 1..Len(chan) :
            Len(chan'[ch].resp) > Len(chan[ch].resp) =>
               \/ drvPc = "closure" /\ drvArg.ch = ch
               \/ chan[ch].kind = "receiver" /\ chan[ch].pending]_vars

\* The key was registered twice with an async handler; a call has sent its
\* request, which sits in the new pair, and the old pair is cut off.
RegisteredAgainCutsOffWitness ==
    \E c \in Callers : \E old \in Replaced :
        /\ rpcPc[c] = "sent"
        /\ chan[rpcArg[c].ch].req /= << >>
        /\ chan[old].key = rpcArg[c].key
        /\ chan[old].kind /= "fn"

(***************************************************************************)
(*            THE CHANNEL PAIR OF A CALLER-POLLED KEY                      *)
(***************************************************************************)

\* The messages of channel pair ch that are under way: requests waiting, a
\* request taken and not answered, responses waiting.
MessagesOf(ch) ==
    Len(chan[ch].req) + Len(chan[ch].resp) + (IF chan[ch].pending THEN 1 ELSE 0)

\* The callers past the mutex of a caller-polled key.
ReceiverCallers ==
    {c \in Callers : rpcPc[c] \in {"locked", "sent"} /\ rpcArg[c].kind = "receiver"}

\* C36: for a caller-polled key whose owner answers only a request it has
\* taken.  The request channel and the response channel hold at most one
\* message, and at most one message of the pair is under way at all, that of
\* the one caller past the mutex; a caller that holds the mutex finds the
\* request channel empty, so its send is enabled; the owner finds the
\* response channel empty when a request is pending; a call returns the
\* response made, once and by the owner, from its own request.
ReceiverOneMessage ==
    /\ [](\A ch \in Receivers :
            /\ Len(chan[ch].req) <= 1 /\ Len(chan[ch].resp) <= 1
            /\ MessagesOf(ch) <= 1
            /\ Cardinality(Holders(ch)) <= 1
            /\ UnderWay(ch) \subseteq Holders(ch)
            /\ chan[ch].pending => chan[ch].resp = << >>)
    /\ [](\A c \in ReceiverCallers :
            /\ rpcPc[c] = "locked" =>
                  /\ MessagesOf(rpcArg[c].ch) = 0
                  /\ rpcArg[c].execs = 0
                  /\ ENABLED AsyncSend(c)
            /\ rpcPc[c] = "sent" =>
                  /\ MessagesOf(rpcArg[c].ch) = 1
                  /\ chan[rpcArg[c].ch].resp /= << >> <=> rpcArg[c].execs = 1
                  /\ chan[rpcArg[c].ch].resp /= << >> =>
                        Head(chan[rpcArg[c].ch].resp) =
                           Apply(rpcArg[c].f, [a |-> FromStr(rpcArg[c].body).a,
                                               b |-> FromStr(rpcArg[c].body).b]))
    /\ [][\A c \in ReceiverCallers :
            rpcPc'[c] = "returned" =>
               /\ rpcRet'[c].status = "ok"
               /\ rpcRet'[c].execs = 1
               /\ rpcRet'[c].execBy = "driver"
               /\ rpcRet'[c].out = ToStringOut(Head(chan[rpcArg[c].ch].resp))
               /\ chan'[rpcArg[c].ch].resp = << >>]_vars
    /\ [][\A ch \in Receivers :
            (chan[ch].pending /\ ~chan'[ch].pending) =>
               /\ chan'[ch].resp =
                     <<Apply(chan[ch].f, [a |-> chan[ch].taken.a, b |-> chan[ch].taken.b])>>
               /\ chan[ch].taken.from \in Holders(ch)]_vars

\* A call on a caller-polled key has returned its response and the next
\* caller, holding the mutex, has its request in the channel.
ReceiverOneMessageWitness ==
    /\ \E c \in Back : rpcRet[c].kind = "receiver" /\ rpcRet[c].status = "ok"
    /\ \E c \in ReceiverCallers : rpcPc[c] = "sent" /\ chan[rpcArg[c].ch].req /= << >>

====
